---- MODULE Spec2Model ----
(***************************************************************************)
(* Entry hierarchy reconstruction of cclogviewer (package processor):      *)
(* ProcessEntries and its phases, the sidechain reconciler                 *)
(* collectSidechainEntries, the token aggregator and the flagging pass.    *)
(*                                                                         *)
(* Pointers to ProcessedEntry are modelled by the entry's UUID, an index   *)
(* into entryMap; UUID i is the i-th record of the input, so 1..n is also  *)
(* state.Entries in record order.  Nil (0) is the nil pointer and the      *)
(* empty parent identifier.                                                *)
(***************************************************************************)
EXTENDS Integers, Sequences, FiniteSets, TLC

\* ---- bounds of the model ----
MaxMain == 1         \* main-session records of one input sequence
MaxSide == 3         \* sub-agent (sidechain) records of one input sequence
MaxCalls == 2        \* SpecSidechain: calls of collectSidechainEntries on one map
MaxText == 3         \* records of a main session made of text and local commands
MaxFile == 3         \* SpecService: records of the session file
MaxOffset == 3       \* SpecService: largest offset, in either direction, of a request
MaxAgent == 4        \* SpecFallback: sub-agent records of one input sequence
MaxSummary == 3      \* SpecSummary: sub-agent records of one input sequence
MaxSessions == 3     \* SpecListing: entries of the project directory
MaxLines == 2        \* lines of one session file of the project directory
MaxInputLines == 2   \* SpecServer: lines the client writes to the server
MaxServerFiles == 1  \* SpecServer: session files of the project directory

\* ---- program constants ----
Nil == 0
TaskToolName == "Task"
RoleUser == "user"
RoleAssistant == "assistant"

\* Text is a sequence of one-character strings.
TagCommandStdout ==
    <<"l", "o", "c", "a", "l", "-", "c", "o", "m", "m", "a", "n", "d", "-",
      "s", "t", "d", "o", "u", "t">>

VARIABLES
    input,        \* the raw records ([]models.LogEntry) handed to ProcessEntries
    entryMap,     \* UUID -> ProcessedEntry: entryMap and state.Entries
    phase,        \* position inside ProcessEntries
    rootEntries,  \* the forest ProcessEntries returns (sequence of UUIDs)
    run,          \* 1 or 2: which of two runs over the same input
    first,        \* the forest the first run returned
    calls,        \* SpecSidechain: number of collectSidechainEntries calls so far
    last,         \* record of the latest collectSidechainEntries call
    request,      \* SpecService: the latest request to the service or an MCP tool
    response,     \* SpecService: what that request returned
    store,        \* the project directory: its entries in name order
    stdin,        \* MCP server: the lines the client wrote and whether it closed
    stdout,       \* MCP server: the responses written
    server        \* MCP server: position of Run

processorVars == <<input, entryMap, phase, rootEntries, run, first, calls, last>>
serverVars == <<store, stdin, stdout, server>>
vars == <<processorVars, request, response, serverVars>>

\* ------------------------------------------------------------------------
\* Helpers
\* ------------------------------------------------------------------------
Range(s) == {s[i] : i \in DOMAIN s}

\* All orders in which a range over the elements S can deliver them.
Perms(S) ==
    {p \in [1..Cardinality(S) -> S] : \A i, j \in DOMAIN p : i # j => p[i] # p[j]}

\* ------------------------------------------------------------------------
\* Raw records: the message payloads of the input family
\* ------------------------------------------------------------------------
Usage == [input_tokens |-> 1, output_tokens |-> 2,
          cache_read_input_tokens |-> 4, cache_creation_input_tokens |-> 8]

\* A message payload json.Unmarshal accepts (valid): role, text content,
\* whether the text has the local-command syntax, tool_use blocks, the
\* identifier of a tool_result block, usage.
MsgUser == [valid |-> TRUE, role |-> RoleUser, content |-> <<"h", "i">>, command |-> FALSE,
            tool_use |-> <<>>, tool_result |-> "", usage |-> Usage]
MsgTask == [valid |-> TRUE, role |-> RoleAssistant, content |-> <<>>, command |-> FALSE,
            tool_use |-> <<[id |-> "t1", name |-> TaskToolName]>>,
            tool_result |-> "", usage |-> Usage]
MsgBash == [valid |-> TRUE, role |-> RoleAssistant, content |-> <<>>, command |-> FALSE,
            tool_use |-> <<[id |-> "t2", name |-> "Bash"]>>,
            tool_result |-> "", usage |-> Usage]
MsgResult == [valid |-> TRUE, role |-> RoleUser, content |-> <<>>, command |-> FALSE,
              tool_use |-> <<>>, tool_result |-> "t2", usage |-> Usage]

\* A payload json.Unmarshal into a map rejects (a JSON string, not an object):
\* only its raw bytes are known.
MsgBroken == [valid |-> FALSE, raw |-> <<"\"", "h", "e", "l", "l", "o", "\"">>]

StartTag(tag) == <<"<">> \o tag \o <<">">>
EndTag(tag) == <<"<", "/">> \o tag \o <<">">>

\* The texts of the main-session family: none, plain, one stdout block, two
\* blocks with text around them, a start tag without end tag, a block after
\* a stray end tag.
Contents ==
    LET open == StartTag(TagCommandStdout)
        close == EndTag(TagCommandStdout)
    IN {<<>>,
        <<"x">>,
        open \o <<"x">> \o close,
        <<"a">> \o open \o <<"x", "y">> \o close \o <<"b">> \o open \o <<"z">> \o close,
        open \o <<"x">>,
        close \o open \o <<"q">> \o close}

\* Text messages: a user text and a local command (a user message with the
\* command syntax) with any of the texts, an assistant text that quotes a
\* stdout block, and the payload that does not parse.
TextMessages ==
    {[valid |-> TRUE, role |-> RoleUser, content |-> c, command |-> cmd,
      tool_use |-> <<>>, tool_result |-> "", usage |-> Usage] :
        cmd \in BOOLEAN, c \in Contents}
    \cup
    {[valid |-> TRUE, role |-> RoleAssistant,
      content |-> StartTag(TagCommandStdout) \o <<"x">> \o EndTag(TagCommandStdout),
      command |-> FALSE, tool_use |-> <<>>, tool_result |-> "", usage |-> Usage]}
    \cup {MsgBroken}

\* The message payloads a main-session record and a sub-agent record can carry.
MainMessages == {MsgTask}
SideMessages == {MsgUser, MsgBash, MsgResult}
AgentIDs == {"", "A"}

\* RawTimestamp strings are compared as strings by the code; the model uses
\* numbers ordered like the fixed-width UTC strings 2024-01-01T00:00:0<n>Z.
Timestamps == {1, 2}

\* The records that may follow the records read so far (prefix).  The main
\* session file comes first and the sub-agent files are appended to it
\* (parser.ReadJSONLFile).  A main-session record has no agent identifier; its
\* parent link is read by no pass of the core and is left empty.  A sub-agent
\* record names any earlier record, itself, or nothing as its parent (a
\* main-session parent is a link that leaves the sidechain, as across a file
\* boundary); RawTimestamp is compared only among records of one agent, so
\* records without agent identifier all carry the first timestamp.
Records(prefix) ==
    LET n == Len(prefix)
        side == {i \in 1..n : prefix[i].IsSidechain}
    IN {[UUID |-> n + 1, ParentUUID |-> Nil, IsSidechain |-> FALSE, AgentID |-> "",
         Timestamp |-> 1, Message |-> m] :
           m \in IF side = {} /\ n < MaxMain THEN MainMessages ELSE {}}
       \cup
       UNION {
         {[UUID |-> n + 1, ParentUUID |-> p, IsSidechain |-> TRUE, AgentID |-> a,
           Timestamp |-> t, Message |-> m] :
             p \in 0..(n + 1),
             t \in IF a = "" THEN {1} ELSE Timestamps,
             m \in IF Cardinality(side) < MaxSide THEN SideMessages ELSE {}}
         : a \in AgentIDs}

\* The records that may follow in a sub-agent log of user texts: each names
\* an earlier record or nothing as its parent and carries the agent identifier
\* or none.
AgentRecords(prefix) ==
    {[UUID |-> Len(prefix) + 1, ParentUUID |-> p, IsSidechain |-> TRUE, AgentID |-> a,
      Timestamp |-> 1, Message |-> MsgUser] :
        p \in IF Len(prefix) < MaxAgent THEN 0..Len(prefix) ELSE {}, a \in AgentIDs}

\* The text of the u-th record of a sub-agent conversation: blank, or a letter
\* of its own with white space around it.
Letters == <<"a", "b", "c", "d">>
SummaryMessages(u) ==
    {[valid |-> TRUE, role |-> r, content |-> c, command |-> FALSE,
      tool_use |-> <<>>, tool_result |-> "", usage |-> Usage] :
        r \in {RoleUser, RoleAssistant}, c \in {<<" ">>, <<" ", Letters[u], "\n">>}}

\* The records that may follow in a sub-agent conversation of user and
\* assistant texts: each names an earlier record or nothing as its parent.
SummaryRecords(prefix) ==
    LET n == Len(prefix)
    IN UNION {
         {[UUID |-> n + 1, ParentUUID |-> p, IsSidechain |-> TRUE, AgentID |-> a,
           Timestamp |-> t, Message |-> m] :
             p \in 0..n, t \in Timestamps, m \in SummaryMessages(n + 1)}
         : a \in IF n < MaxSummary THEN AgentIDs ELSE {}}

\* The records that may follow in a main session of text messages and local
\* commands only (no tools, no sub-agents).
TextRecords(prefix) ==
    {[UUID |-> Len(prefix) + 1, ParentUUID |-> Nil, IsSidechain |-> FALSE, AgentID |-> "",
      Timestamp |-> 1, Message |-> m] :
        m \in IF Len(prefix) < MaxText THEN TextMessages ELSE {}}

\* ------------------------------------------------------------------------
\* Phase 1: processEntry
\* ------------------------------------------------------------------------
NewToolCall(block) ==
    [ID |-> block.id, Name |-> block.name, Result |-> Nil, TaskEntries |-> <<>>,
     HasMissingResult |-> FALSE, HasMissingSidechain |-> FALSE]

\* processMessage: role, content, command flag, tool calls and the tool-result
\* marker of the payload.
processMessage(processed, msg) ==
    [processed EXCEPT
        !.Role = msg.role,
        !.Content = msg.content,
        !.IsCommandMessage = msg.command,
        !.ToolCalls = [k \in DOMAIN msg.tool_use |-> NewToolCall(msg.tool_use[k])],
        !.IsToolResult = (msg.tool_result # ""),
        !.ToolResultID = msg.tool_result]

\* TokenProcessor.ProcessTokens: the usage block; the total is left to the
\* aggregation pass.
ProcessTokens(processed, msg) ==
    [processed EXCEPT
        !.InputTokens = msg.usage.input_tokens,
        !.OutputTokens = msg.usage.output_tokens,
        !.CacheReadTokens = msg.usage.cache_read_input_tokens,
        !.CacheCreationTokens = msg.usage.cache_creation_input_tokens,
        !.TokenCount = msg.usage.output_tokens]

\* EstimateTokens: a token estimate from the length of a text, one token for
\* every CharsPerToken characters.
CharsPerToken == 4
EstimateTokens(text) == Len(text) \div CharsPerToken

processEntry(entry) ==
    LET processed ==
            [UUID |-> entry.UUID, ParentUUID |-> entry.ParentUUID,
             IsSidechain |-> entry.IsSidechain, RawTimestamp |-> entry.Timestamp,
             AgentID |-> entry.AgentID,
             Role |-> "", Content |-> <<>>, ToolCalls |-> <<>>, IsToolResult |-> FALSE,
             ToolResultID |-> "", Children |-> <<>>,
             IsCommandMessage |-> FALSE, CommandOutput |-> <<>>,
             TokenCount |-> 0, TotalTokens |-> 0, InputTokens |-> 0,
             OutputTokens |-> 0, CacheReadTokens |-> 0, CacheCreationTokens |-> 0]
    IN IF entry.Message.valid
       THEN ProcessTokens(processMessage(processed, entry.Message), entry.Message)
       ELSE [processed EXCEPT !.TokenCount = EstimateTokens(processed.Content)]

\* ------------------------------------------------------------------------
\* Phase 2: matchToolCallsWithResults
\* ------------------------------------------------------------------------
\* The results already attached to some tool call.
Consumed(em) ==
    UNION {{em[e].ToolCalls[k].Result : k \in DOMAIN em[e].ToolCalls} : e \in DOMAIN em}
        \ {Nil}

Min(S) == CHOOSE x \in S : \A y \in S : x <= y

RECURSIVE MatchFromAnyResult(_, _, _)
RECURSIVE MatchFrom(_, _, _)

\* The matcher without the consumed mark: a call takes the first later result
\* with its identifier, owned or not.
MatchFromAnyResult(em, i, k) ==
    IF i > Len(em) THEN em
    ELSE IF em[i].Role # RoleAssistant \/ k > Len(em[i].ToolCalls)
    THEN MatchFromAnyResult(em, i + 1, 1)
    ELSE LET found == {j \in (i + 1)..Len(em) :
                          /\ em[j].IsToolResult
                          /\ em[j].ToolResultID = em[i].ToolCalls[k].ID}
         IN IF found = {}
            THEN MatchFromAnyResult(em, i, k + 1)
            ELSE MatchFromAnyResult([em EXCEPT ![i].ToolCalls[k].Result = Min(found)], i, k + 1)

\* For every tool call of every assistant entry, in record order: the first
\* later tool-result entry with the call's identifier that no call owns yet.
MatchFrom(em, i, k) ==
    IF i > Len(em) THEN em
    ELSE IF em[i].Role # RoleAssistant \/ k > Len(em[i].ToolCalls)
    THEN MatchFrom(em, i + 1, 1)
    ELSE LET found == {j \in (i + 1)..Len(em) :
                          /\ em[j].IsToolResult
                          /\ em[j].ToolResultID = em[i].ToolCalls[k].ID
                          /\ j \notin Consumed(em)}
         IN IF found = {}
            THEN MatchFrom(em, i, k + 1)
            ELSE MatchFrom([em EXCEPT ![i].ToolCalls[k].Result = Min(found)], i, k + 1)

matchToolCallsWithResults(em) == MatchFrom(em, 1, 1)

\* ------------------------------------------------------------------------
\* Phase 3: collectSidechainEntries
\* ------------------------------------------------------------------------
\* attachedToolResults: the results held by tool calls of sidechain entries.
attachedToolResults(em) ==
    UNION {{em[e].ToolCalls[k].Result : k \in DOMAIN em[e].ToolCalls} :
              e \in {x \in DOMAIN em : em[x].IsSidechain}} \ {Nil}

\* The entries the scan of entryMap finds as children of entry.
ScanChildren(em, entry) ==
    {e \in DOMAIN em : em[e].ParentUUID = em[entry].UUID /\ em[e].IsSidechain}

\* buildTree.  A walk state st is [em, result, visited, overflow]; the range
\* over entryMap delivers the children in any order, so the outcome is a set
\* of walk states.  stack holds the entries whose buildTree call is still
\* active: re-entering one of them repeats the same descent without end, which
\* the Go runtime ends with a fatal stack overflow.
RECURSIVE buildTree(_, _, _, _, _)
RECURSIVE VisitChildren(_, _, _, _, _)

\* buildTree with the descent cut below an entry that is skipped.
buildTreeTruncating(st, entry, skipEntry, stack, attached) ==
    IF st.overflow THEN {st}
    ELSE IF entry \in stack THEN {[st EXCEPT !.overflow = TRUE]}
    ELSE IF skipEntry THEN {[st EXCEPT !.visited = @ \cup {entry}]}
    ELSE UNION {
        LET em1 == [st.em EXCEPT ![entry].Children = @ \o found]
            st1 == [st EXCEPT
                       !.em = em1,
                       !.result = Append(@, entry),
                       !.visited = @ \cup {entry}]
        IN VisitChildren({st1}, em1[entry].Children, 1, stack \cup {entry}, attached)
        : found \in Perms(ScanChildren(st.em, entry))}

buildTree(st, entry, skipEntry, stack, attached) ==
    IF st.overflow THEN {st}
    ELSE IF entry \in stack THEN {[st EXCEPT !.overflow = TRUE]}
    ELSE UNION {
        LET em1 == [st.em EXCEPT ![entry].Children = @ \o found]
            st1 == [st EXCEPT
                       !.em = em1,
                       !.result = IF skipEntry THEN @ ELSE Append(@, entry),
                       !.visited = @ \cup {entry}]
        IN VisitChildren({st1}, em1[entry].Children, 1, stack \cup {entry}, attached)
        : found \in Perms(ScanChildren(st.em, entry))}

VisitChildren(sts, children, i, stack, attached) ==
    IF i > Len(children) THEN sts
    ELSE VisitChildren(
            UNION {buildTree(st, children[i],
                             st.em[children[i]].IsToolResult /\ children[i] \in attached,
                             stack, attached) : st \in sts},
            children, i + 1, stack, attached)

\* expectedCount of the coverage check.
expectedCount(em, root) ==
    Cardinality({e \in DOMAIN em : em[e].AgentID = em[root].AgentID /\ em[e].IsSidechain})

\* The entries the AgentID-based collection keeps.
FallbackSet(em, root, attached) ==
    {e \in DOMAIN em :
        /\ em[e].AgentID = em[root].AgentID /\ em[e].IsSidechain
        /\ ~(em[e].IsToolResult /\ e \in attached)}

SortedByTimestamp(em, list) ==
    \A i, j \in DOMAIN list : i < j => em[list[i]].RawTimestamp <= em[list[j]].RawTimestamp

\* The collected list left in map order, without the sort.
SortSliceOmitted(em, set) == Perms(set)

\* sort.Slice over a list collected in map order: any arrangement that is
\* ordered by RawTimestamp.
SortSlice(em, set) == {p \in Perms(set) : SortedByTimestamp(em, p)}

\* collectSidechainEntries(root, entryMap): every outcome the call can have,
\* each with the entry map it leaves behind, the list it returns and what the
\* two paths computed on the way.
collectSidechainEntries(root, em) ==
    LET attached == attachedToolResults(em)
        st0 == [em |-> em, result |-> <<>>, visited |-> {}, overflow |-> FALSE]
        walks == buildTree(st0, root, FALSE, {}, attached)
        expected == expectedCount(em, root)
        Outcome(st, list, fb) ==
            [em |-> st.em, result |-> list,
             call |-> [root |-> root, before |-> em, overflow |-> st.overflow,
                       primary |-> st.result, visited |-> st.visited,
                       expected |-> expected, fellBack |-> fb, result |-> list]]
    IN UNION {
        IF st.overflow THEN {Outcome(st, <<>>, FALSE)}
        ELSE IF em[root].AgentID # "" /\ Len(st.result) < expected
        THEN {Outcome(st, list, TRUE) : list \in SortSlice(em, FallbackSet(em, root, attached))}
        ELSE {Outcome(st, st.result, FALSE)}
        : st \in walks}

\* The sidechain roots, in record order: sidechain records without a parent.
SidechainRoots(em) ==
    SelectSeq([i \in 1..Len(em) |-> i],
              LAMBDA e : em[e].IsSidechain /\ em[e].ParentUUID = Nil)

\* The Task tool calls of the main conversation, in record order, as <<entry, k>>.
RECURSIVE TaskCallsFrom(_, _)
TaskCallsFrom(em, i) ==
    IF i > Len(em) THEN <<>>
    ELSE (IF em[i].IsSidechain THEN <<>>
          ELSE SelectSeq([k \in DOMAIN em[i].ToolCalls |-> <<i, k>>],
                         LAMBDA c : em[i].ToolCalls[c[2]].Name = TaskToolName))
         \o TaskCallsFrom(em, i + 1)

\* processSidechainConversations: every root is reconciled and the list is
\* stored as the TaskEntries of the Task tool call it belongs to (the r-th
\* root to the r-th Task call; a root without one stays unattached).
RECURSIVE ReconcileRoots(_, _, _, _)
ReconcileRoots(ems, roots, tasks, r) ==
    IF r > Len(roots) THEN ems
    ELSE ReconcileRoots(
            {IF r <= Len(tasks)
             THEN [o.em EXCEPT ![tasks[r][1]].ToolCalls[tasks[r][2]].TaskEntries = o.result]
             ELSE o.em
             : o \in UNION {collectSidechainEntries(roots[r], em) : em \in ems}},
            roots, tasks, r + 1)

processSidechainConversations(em) ==
    ReconcileRoots({em}, SidechainRoots(em), TaskCallsFrom(em, 1), 1)

\* ------------------------------------------------------------------------
\* Phases 4-7
\* ------------------------------------------------------------------------
\* getRootEntries: the main-conversation entries no tool call owns as result.
getRootEntries(em) ==
    SelectSeq([i \in 1..Len(em) |-> i],
              LAMBDA e : ~em[e].IsSidechain /\ e \notin Consumed(em))

OwnTotal(e) == e.InputTokens + e.CacheReadTokens + e.CacheCreationTokens

RECURSIVE calculateTokensForEntry(_, _)
RECURSIVE CalcToolCalls(_, _, _)
RECURSIVE CalcEntries(_, _, _)
calculateTokensForEntry(em, entry) ==
    CalcToolCalls([em EXCEPT ![entry].TotalTokens = OwnTotal(em[entry])], entry, 1)

CalcToolCalls(em, entry, k) ==
    IF k > Len(em[entry].ToolCalls) THEN em
    ELSE LET toolCall == em[entry].ToolCalls[k]
             em1 == IF toolCall.Result # Nil
                    THEN [em EXCEPT ![toolCall.Result].TotalTokens = OwnTotal(em[toolCall.Result])]
                    ELSE em
         IN CalcToolCalls(CalcEntries(em1, toolCall.TaskEntries, 1), entry, k + 1)

CalcEntries(em, list, i) ==
    IF i > Len(list) THEN em
    ELSE CalcEntries(calculateTokensForEntry(em, list[i]), list, i + 1)

calculateAllTokens(em, roots) == CalcEntries(em, roots, 1)

RECURSIVE checkMissingToolResults(_, _)
RECURSIVE CheckToolCalls(_, _, _)
RECURSIVE CheckToolCallsSkippingTaskEntries(_, _, _)
RECURSIVE CheckToolCallsAnyTool(_, _, _)
RECURSIVE CheckEntries(_, _, _)
checkMissingToolResults(em, entry) ==
    CheckEntries(CheckToolCalls(em, entry, 1), em[entry].Children, 1)

\* The tool-call loop without the descent into the nested task entries.
CheckToolCallsSkippingTaskEntries(em, entry, k) ==
    IF k > Len(em[entry].ToolCalls) THEN em
    ELSE LET toolCall == em[entry].ToolCalls[k]
             em1 == [em EXCEPT
                        ![entry].ToolCalls[k].HasMissingResult =
                            IF toolCall.Result = Nil THEN TRUE ELSE @,
                        ![entry].ToolCalls[k].HasMissingSidechain =
                            IF toolCall.Name = TaskToolName /\ Len(toolCall.TaskEntries) = 0
                            THEN TRUE ELSE @]
         IN CheckToolCallsSkippingTaskEntries(em1, entry, k + 1)

\* The tool-call loop with the sidechain test applied to every tool.
CheckToolCallsAnyTool(em, entry, k) ==
    IF k > Len(em[entry].ToolCalls) THEN em
    ELSE LET toolCall == em[entry].ToolCalls[k]
             em1 == [em EXCEPT
                        ![entry].ToolCalls[k].HasMissingResult =
                            IF toolCall.Result = Nil THEN TRUE ELSE @,
                        ![entry].ToolCalls[k].HasMissingSidechain =
                            IF Len(toolCall.TaskEntries) = 0 THEN TRUE ELSE @]
         IN CheckToolCallsAnyTool(CheckEntries(em1, toolCall.TaskEntries, 1), entry, k + 1)

CheckToolCalls(em, entry, k) ==
    IF k > Len(em[entry].ToolCalls) THEN em
    ELSE LET toolCall == em[entry].ToolCalls[k]
             em1 == [em EXCEPT
                        ![entry].ToolCalls[k].HasMissingResult =
                            IF toolCall.Result = Nil THEN TRUE ELSE @,
                        ![entry].ToolCalls[k].HasMissingSidechain =
                            IF toolCall.Name = TaskToolName /\ Len(toolCall.TaskEntries) = 0
                            THEN TRUE ELSE @]
         IN CheckToolCalls(CheckEntries(em1, toolCall.TaskEntries, 1), entry, k + 1)

CheckEntries(em, list, i) ==
    IF i > Len(list) THEN em
    ELSE CheckEntries(checkMissingToolResults(em, list[i]), list, i + 1)

checkAllMissingResults(em, roots) == CheckEntries(em, roots, 1)

\* strings.Index: the 0-based position of the first occurrence of pat in
\* text, -1 when there is none.
Index(text, pat) ==
    LET at == {i \in 0..(Len(text) - Len(pat)) : SubSeq(text, i + 1, i + Len(pat)) = pat}
    IN IF at = {} THEN -1 ELSE Min(at)

\* strings.Contains.
Contains(text, pat) == Index(text, pat) # -1

\* text[from:] and text[from:to] with 0-based bounds.
SliceFrom(text, from) == SubSeq(text, from + 1, Len(text))
Slice(text, from, to) == SubSeq(text, from + 1, to)

\* extractXMLContent with the end tag searched from the start of the text.
extractXMLContentEndFromStart(text, tag) ==
    LET startTag == StartTag(tag)
        endTag == EndTag(tag)
        startIdx == Index(text, startTag)
    IN IF startIdx = -1 THEN <<>>
       ELSE LET endIdx == Index(text, endTag)
            IN IF endIdx = -1 THEN <<>>
               ELSE Slice(text, startIdx + Len(startTag), endIdx)

extractXMLContent(text, tag) ==
    LET startTag == StartTag(tag)
        endTag == EndTag(tag)
        startIdx == Index(text, startTag)
    IN IF startIdx = -1 THEN <<>>
       ELSE LET from == startIdx + Len(startTag)
                endIdx == Index(SliceFrom(text, from), endTag)
            IN IF endIdx = -1 THEN <<>>
               ELSE Slice(text, from, from + endIdx)

isCommandWithStdout(current, next) ==
    /\ current.IsCommandMessage
    /\ next.Role = RoleUser
    /\ Contains(next.Content, StartTag(TagCommandStdout))

\* linkCommandOutputs(entries): the loop from pair i on.
RECURSIVE LinkFrom(_, _, _)
LinkFrom(em, entries, i) ==
    IF i > Len(entries) - 1 THEN em
    ELSE LET current == entries[i]
             next == entries[i + 1]
         IN IF isCommandWithStdout(em[current], em[next])
            THEN LET em1 == [em EXCEPT ![current].CommandOutput =
                                extractXMLContent(em[next].Content, TagCommandStdout)]
                 IN LinkFrom([em1 EXCEPT ![next].Content = <<>>], entries, i + 1)
            ELSE LinkFrom(em, entries, i + 1)

linkCommandOutputs(em, entries) == LinkFrom(em, entries, 1)

\* linkAllCommandOutputs: the linker over the top-level entries.
linkAllCommandOutputs(em, roots) == linkCommandOutputs(em, roots)

\* ------------------------------------------------------------------------
\* The summaries of a sidechain conversation
\* ------------------------------------------------------------------------
\* strings.TrimSpace.
IsSpace(c) == c \in {" ", "\n", "\t", "\r"}

RECURSIVE TrimLeft(_)
TrimLeft(text) ==
    IF text # <<>> /\ IsSpace(Head(text)) THEN TrimLeft(Tail(text)) ELSE text

RECURSIVE TrimRight(_)
TrimRight(text) ==
    IF text # <<>> /\ IsSpace(text[Len(text)])
    THEN TrimRight(SubSeq(text, 1, Len(text) - 1)) ELSE text

TrimSpace(text) == TrimRight(TrimLeft(text))

extractContent(entry) == TrimSpace(entry.Content)

\* The entries a scan of entryMap finds as user-role children of entry.
ScanUserChildren(em, entry) ==
    {e \in ScanChildren(em, entry) : em[e].Role = RoleUser}

\* findFirstUser(entry): every answer the closure can give; the scan of
\* entryMap ends at whichever user-role child it meets first.
RECURSIVE findFirstUser(_, _)
RECURSIVE FirstUserBelow(_, _, _)
findFirstUser(em, entry) ==
    LET children == em[entry].Children
        users == {k \in DOMAIN children : em[children[k]].Role = RoleUser}
    IN IF users # {}
       THEN {extractContent(em[children[Min(users)]])}
       ELSE FirstUserBelow(em, entry, 1)

\* The second loop from child k on, then the scan of entryMap.
FirstUserBelow(em, entry, k) ==
    IF k > Len(em[entry].Children)
    THEN IF ScanUserChildren(em, entry) = {} THEN {<<>>}
         ELSE {extractContent(em[e]) : e \in ScanUserChildren(em, entry)}
    ELSE LET below == findFirstUser(em, em[entry].Children[k])
         IN (below \ {<<>>})
            \cup IF <<>> \in below THEN FirstUserBelow(em, entry, k + 1) ELSE {}

\* The entries a flat scan keeps when it looks for the earliest (sign 1) or
\* the latest (sign -1) of the candidates: one with no candidate before
\* (after) it in time; which of several depends on the order of the scan.
Extreme(em, candidates, sign) ==
    {e \in candidates :
        \A f \in candidates : sign * em[e].RawTimestamp <= sign * em[f].RawTimestamp}

\* getFirstUserMessage(root, entryMap): every string the call can return.
getFirstUserMessage(root, em) ==
    IF em[root].Role = RoleUser /\ extractContent(em[root]) # <<>>
    THEN {extractContent(em[root])}
    ELSE LET found == findFirstUser(em, root)
             candidates == {e \in DOMAIN em :
                               /\ em[e].AgentID = em[root].AgentID
                               /\ em[e].Role = RoleUser /\ em[e].IsSidechain
                               /\ extractContent(em[e]) # <<>>}
         IN (found \ {<<>>})
            \cup IF <<>> \notin found THEN {}
                 ELSE IF em[root].AgentID = "" \/ candidates = {} THEN {<<>>}
                 ELSE {extractContent(em[e]) : e \in Extreme(em, candidates, 1)}

\* What findLastAssistant keeps between two visits.
NoAssistant == [content |-> <<>>, time |-> 0]

\* The visit of one entry with the comparison of the times left out: every
\* assistant text replaces the one kept.
NoteAssistantLastVisited(st, e) ==
    IF e.Role = RoleAssistant /\ ~e.IsToolResult /\ extractContent(e) # <<>>
    THEN [content |-> extractContent(e), time |-> e.RawTimestamp]
    ELSE st

\* The visit of one entry: an assistant text that is later than the one kept
\* replaces it.
NoteAssistant(st, e) ==
    IF /\ e.Role = RoleAssistant /\ ~e.IsToolResult
       /\ extractContent(e) # <<>>
       /\ (st.content = <<>> \/ e.RawTimestamp > st.time)
    THEN [content |-> extractContent(e), time |-> e.RawTimestamp]
    ELSE st

\* findLastAssistant(entry) from the states sts: the entry, its Children in
\* order, then the children the scan of entryMap finds that Children lacks,
\* in any order.
RECURSIVE findLastAssistant(_, _, _)
RECURSIVE LastAssistantBelow(_, _, _, _)
findLastAssistant(em, sts, entry) ==
    LET noted == {NoteAssistant(st, em[entry]) : st \in sts}
        listed == LastAssistantBelow(em, noted, em[entry].Children, 1)
        unlisted == ScanChildren(em, entry) \ Range(em[entry].Children)
    IN UNION {LastAssistantBelow(em, listed, order, 1) : order \in Perms(unlisted)}

LastAssistantBelow(em, sts, list, k) ==
    IF k > Len(list) THEN sts
    ELSE LastAssistantBelow(em, findLastAssistant(em, sts, list[k]), list, k + 1)

\* getLastAssistantMessage(root, entryMap): every string the call can return.
getLastAssistantMessage(root, em) ==
    LET candidates == {e \in DOMAIN em :
                          /\ em[e].AgentID = em[root].AgentID
                          /\ em[e].Role = RoleAssistant /\ em[e].IsSidechain
                          /\ ~em[e].IsToolResult
                          /\ extractContent(em[e]) # <<>>}
    IN UNION {
        IF st.content # <<>> THEN {st.content}
        ELSE IF em[root].AgentID = "" \/ candidates = {} THEN {<<>>}
        ELSE {extractContent(em[e]) : e \in Extreme(em, candidates, -1)}
        : st \in findLastAssistant(em, {NoAssistant}, root)}

\* ------------------------------------------------------------------------
\* State machine
\* ------------------------------------------------------------------------
NoRequest == [op |-> "none"]
NoResponse == [op |-> "none"]

NoCall == [root |-> Nil, before |-> <<>>, overflow |-> FALSE,
           primary |-> <<>>, visited |-> {}, expected |-> 0, fellBack |-> FALSE,
           result |-> <<>>]

Init ==
    /\ input = <<>>
    /\ entryMap = <<>>
    /\ phase = "read"
    /\ rootEntries = <<>>
    /\ run = 1
    /\ first = [entryMap |-> <<>>, rootEntries |-> <<>>]
    /\ calls = 0
    /\ last = NoCall
    /\ request = NoRequest
    /\ response = NoResponse
    /\ store = <<>>
    /\ stdin = [lines |-> <<>>, closed |-> FALSE]
    /\ stdout = <<>>
    /\ server = [pc |-> "running", next |-> 1]

\* Phase 1, one record: processAllEntries appends processEntry(record) to
\* state.Entries and stores it in entryMap.  The second run reads the records
\* of the first.
ProcessRecord ==
    /\ phase = "read"
    /\ run = 2 => Len(entryMap) < Len(input)
    /\ \E rec \in IF run = 1 THEN Records(input) ELSE {input[Len(entryMap) + 1]} :
          /\ entryMap' = Append(entryMap, processEntry(rec))
          /\ input' = IF run = 1 THEN Append(input, rec) ELSE input
    /\ UNCHANGED <<phase, rootEntries, run, first, calls, last, request, response, serverVars>>

\* The same step over the records of a text-and-command session.
ProcessTextRecord ==
    /\ phase = "read"
    /\ run = 2 => Len(entryMap) < Len(input)
    /\ \E rec \in IF run = 1 THEN TextRecords(input) ELSE {input[Len(entryMap) + 1]} :
          /\ entryMap' = Append(entryMap, processEntry(rec))
          /\ input' = IF run = 1 THEN Append(input, rec) ELSE input
    /\ UNCHANGED <<phase, rootEntries, run, first, calls, last, request, response, serverVars>>

\* The same step over the records of a sub-agent log of user texts.
ProcessAgentRecord ==
    /\ phase = "read"
    /\ \E rec \in AgentRecords(input) :
          /\ entryMap' = Append(entryMap, processEntry(rec))
          /\ input' = Append(input, rec)
    /\ UNCHANGED <<phase, rootEntries, run, first, calls, last, request, response, serverVars>>

\* The same step over the records of a sub-agent conversation of texts.
ProcessSummaryRecord ==
    /\ phase = "read"
    /\ \E rec \in SummaryRecords(input) :
          /\ entryMap' = Append(entryMap, processEntry(rec))
          /\ input' = Append(input, rec)
    /\ UNCHANGED <<phase, rootEntries, run, first, calls, last, request, response, serverVars>>

\* Phase 2.
MatchToolCallsWithResults ==
    /\ phase = "read"
    /\ Len(entryMap) > 0
    /\ run = 2 => Len(entryMap) = Len(input)
    /\ entryMap' = matchToolCallsWithResults(entryMap)
    /\ phase' = "matched"
    /\ UNCHANGED <<input, rootEntries, run, first, calls, last, request, response, serverVars>>

\* Phase 3.
ProcessSidechainConversations ==
    /\ phase = "matched"
    /\ calls = 0
    /\ entryMap' \in processSidechainConversations(entryMap)
    /\ phase' = "sidechains"
    /\ UNCHANGED <<input, rootEntries, run, first, calls, last, request, response, serverVars>>

\* Phase 4.
GetRootEntries ==
    /\ phase = "sidechains"
    /\ rootEntries' = getRootEntries(entryMap)
    /\ phase' = "roots"
    /\ UNCHANGED <<input, entryMap, run, first, calls, last, request, response, serverVars>>

\* Phase 5.
CalculateAllTokens ==
    /\ phase = "roots"
    /\ entryMap' = calculateAllTokens(entryMap, rootEntries)
    /\ phase' = "tokens"
    /\ UNCHANGED <<input, rootEntries, run, first, calls, last, request, response, serverVars>>

\* Phase 6.
CheckAllMissingResults ==
    /\ phase = "tokens"
    /\ entryMap' = checkAllMissingResults(entryMap, rootEntries)
    /\ phase' = "flagged"
    /\ UNCHANGED <<input, rootEntries, run, first, calls, last, request, response, serverVars>>

\* Phase 7; buildFinalHierarchy follows and ProcessEntries returns rootEntries.
LinkAllCommandOutputs ==
    /\ phase = "flagged"
    /\ entryMap' = linkAllCommandOutputs(entryMap, rootEntries)
    /\ phase' = "done"
    /\ UNCHANGED <<input, rootEntries, run, first, calls, last, request, response, serverVars>>

\* ProcessEntries is called again on the same records: a fresh state and a
\* fresh entryMap.
RunAgain ==
    /\ phase = "done"
    /\ run = 1
    /\ first' = [entryMap |-> entryMap, rootEntries |-> rootEntries]
    /\ run' = 2
    /\ entryMap' = <<>>
    /\ rootEntries' = <<>>
    /\ phase' = "read"
    /\ UNCHANGED <<input, calls, last, request, response, serverVars>>

\* A call collectSidechainEntries(root, entryMap) on the matched entry map,
\* for any sidechain entry as root; the map keeps what the call did to it.
CollectSidechainEntries ==
    /\ phase = "matched"
    /\ calls < MaxCalls
    /\ ~last.overflow
    /\ \E root \in {e \in DOMAIN entryMap : entryMap[e].IsSidechain} :
          \E o \in collectSidechainEntries(root, entryMap) :
             /\ last' = o.call
             /\ entryMap' = o.em
    /\ calls' = calls + 1
    /\ UNCHANGED <<input, phase, rootEntries, run, first, request, response, serverVars>>

Next ==
    \/ ProcessRecord
    \/ MatchToolCallsWithResults
    \/ ProcessSidechainConversations
    \/ GetRootEntries
    \/ CalculateAllTokens
    \/ CheckAllMissingResults
    \/ LinkAllCommandOutputs
    \/ RunAgain

Spec == Init /\ [][Next]_vars

\* ProcessEntries over a text-and-command session.
NextText ==
    \/ ProcessTextRecord
    \/ MatchToolCallsWithResults
    \/ ProcessSidechainConversations
    \/ GetRootEntries
    \/ CalculateAllTokens
    \/ CheckAllMissingResults
    \/ LinkAllCommandOutputs
    \/ RunAgain

SpecText == Init /\ [][NextText]_vars

NextSidechain ==
    \/ ProcessRecord
    \/ MatchToolCallsWithResults
    \/ CollectSidechainEntries

SpecSidechain == Init /\ [][NextSidechain]_vars

\* getFirstUserMessage(root, entryMap) for a sidechain root, before or after
\* the reconciler filled the Children lists.
CallGetFirstUserMessage ==
    /\ phase \in {"matched", "sidechains"}
    /\ request = NoRequest
    /\ \E root \in Range(SidechainRoots(entryMap)) :
          /\ request' = [op |-> "getFirstUserMessage", root |-> root, entryMap |-> entryMap]
          /\ \E text \in getFirstUserMessage(root, entryMap) :
                response' = [op |-> "getFirstUserMessage", result |-> text]
    /\ UNCHANGED <<input, entryMap, phase, rootEntries, run, first, calls, last, serverVars>>

\* getLastAssistantMessage(root, entryMap) for a sidechain root.
CallGetLastAssistantMessage ==
    /\ phase \in {"matched", "sidechains"}
    /\ request = NoRequest
    /\ \E root \in Range(SidechainRoots(entryMap)) :
          /\ request' = [op |-> "getLastAssistantMessage", root |-> root, entryMap |-> entryMap]
          /\ \E text \in getLastAssistantMessage(root, entryMap) :
                response' = [op |-> "getLastAssistantMessage", result |-> text]
    /\ UNCHANGED <<input, entryMap, phase, rootEntries, run, first, calls, last, serverVars>>

\* The two summaries of a sidechain conversation.
NextSummary ==
    \/ ProcessSummaryRecord
    \/ MatchToolCallsWithResults
    \/ ProcessSidechainConversations
    \/ CallGetFirstUserMessage
    \/ CallGetLastAssistantMessage

SpecSummary == Init /\ [][NextSummary]_vars

\* collectSidechainEntries over sub-agent logs of user texts.
NextFallback ==
    \/ ProcessAgentRecord
    \/ MatchToolCallsWithResults
    \/ CollectSidechainEntries

SpecFallback == Init /\ [][NextFallback]_vars

\* ------------------------------------------------------------------------
\* The service layer: SessionService and the MCP tools over one session file
\* ------------------------------------------------------------------------
\* The store holds one session, ExistingSession, whose log file ExistingFile
\* has the records of input; no other session or file exists.
ExistingSession == "s1"
MissingSession == "s2"
ExistingFile == "f1"
MissingFile == "f2"

ErrEntryNotFound == "entry with UUID not found"
ErrSessionNotFound == "session not found"
ErrFileNotFound == "file not found"
ErrSourceRequired == "either session_id or file_path is required"
ErrUUIDRequired == "uuid is required"

ServiceDefaultOffset == -3
ToolDefaultOffset == 3

\* The records the session log can grow by: a user text, an assistant message
\* with a tool call, the tool result for it, and a sub-agent record.
ServiceRecords(prefix) ==
    {[UUID |-> Len(prefix) + 1, ParentUUID |-> Nil, IsSidechain |-> FALSE, AgentID |-> "",
      Timestamp |-> 1, Message |-> m] : m \in {MsgUser, MsgBash, MsgResult}}
    \cup
    {[UUID |-> Len(prefix) + 1, ParentUUID |-> Nil, IsSidechain |-> TRUE, AgentID |-> "A",
      Timestamp |-> 1, Message |-> MsgUser]}

\* ProcessEntries(entries): every forest the call can return, with the entries
\* behind it.
ProcessEntries(entries) ==
    LET em0 == [i \in 1..Len(entries) |-> processEntry(entries[i])]
        em1 == matchToolCallsWithResults(em0)
    IN {LET roots == getRootEntries(em2)
            em3 == calculateAllTokens(em2, roots)
            em4 == checkAllMissingResults(em3, roots)
        IN [em |-> linkAllCommandOutputs(em4, roots), roots |-> roots]
        : em2 \in processSidechainConversations(em1)}

\* A Go slice of entries: nil or not, and its elements.
NilSlice == [isNil |-> TRUE, items |-> <<>>]
SliceOf(items) == [isNil |-> FALSE, items |-> items]

\* The slice ProcessEntries hands over: whether a forest without roots is a
\* nil slice is decided inside getRootEntries.
Returned_(roots) ==
    IF roots = <<>> THEN {NilSlice, SliceOf(<<>>)} ELSE {SliceOf(roots)}

\* The filter of loadProcessedEntries: appended to a nil slice, so without a
\* top-level entry outside the sidechains the outcome is nil.
FilterSidechains(em, slice, includeSidechains) ==
    IF includeSidechains THEN slice
    ELSE LET filtered == SelectSeq(slice.items, LAMBDA e : ~em[e].IsSidechain)
         IN [isNil |-> filtered = <<>>, items |-> filtered]

\* findSessionFile: the path of the session's log, "" when there is none.
findSessionFile(sessionID) == IF sessionID = ExistingSession THEN ExistingFile ELSE ""

\* loadProcessedEntries for the main session (agentID ""): every outcome, as
\* [err, processed].
loadProcessedEntries(file, sessionID, includeSidechains) ==
    IF findSessionFile(sessionID) = ""
    THEN {[err |-> "", processed |-> NilSlice]}
    ELSE UNION {{[err |-> "", processed |-> FilterSidechains(f.em, slice, includeSidechains)]
                  : slice \in Returned_(f.roots)}
                : f \in ProcessEntries(file)}

loadProcessedEntriesFromFile(file, filePath, includeSidechains) ==
    IF filePath # ExistingFile
    THEN {[err |-> ErrFileNotFound, processed |-> NilSlice]}
    ELSE UNION {{[err |-> "", processed |-> FilterSidechains(f.em, slice, includeSidechains)]
                  : slice \in Returned_(f.roots)}
                : f \in ProcessEntries(file)}

\* entryToContextLog(e, offset): the log built from entry e.
entryToContextLog(e, offset) == [Offset |-> offset, entry |-> e]

\* The 0-based index of the first entry with the target UUID, -1 without one.
TargetIndex(items, targetUUID) ==
    LET at == {i \in 0..(Len(items) - 1) : items[i + 1] = targetUUID}
    IN IF at = {} THEN -1 ELSE Min(at)

RECURSIVE EntriesBeforeBreaking(_, _, _)
RECURSIVE EntriesBefore(_, _, _)
RECURSIVE EntriesAfter(_, _, _, _)

\* The loop over the entries before the target that stops at the first index
\* below the start of the session.
EntriesBeforeBreaking(items, targetIndex, i) ==
    IF i >= 0 THEN <<>>
    ELSE IF targetIndex + i < 0 THEN <<>>
    ELSE <<entryToContextLog(items[targetIndex + i + 1], i)>>
            \o EntriesBeforeBreaking(items, targetIndex, i + 1)

\* for i := -absOffset; i < 0; i++
EntriesBefore(items, targetIndex, i) ==
    IF i >= 0 THEN <<>>
    ELSE (IF targetIndex + i < 0 THEN <<>>
          ELSE <<entryToContextLog(items[targetIndex + i + 1], i)>>)
            \o EntriesBefore(items, targetIndex, i + 1)

\* for i := 1; i <= offset; i++
EntriesAfter(items, targetIndex, i, offset) ==
    IF i > offset \/ targetIndex + i >= Len(items) THEN <<>>
    ELSE <<entryToContextLog(items[targetIndex + i + 1], i)>>
            \o EntriesAfter(items, targetIndex, i + 1, offset)

NilLogs == [isNil |-> TRUE]

\* The body GetLogsAroundEntry and GetLogsAroundEntryFromFile share, from the
\* search for the target on: [err, logs].
LogsAround(items, label, targetUUID, offset) ==
    LET targetIndex == TargetIndex(items, targetUUID)
        offset1 == IF offset = 0 THEN ServiceDefaultOffset ELSE offset
        target == entryToContextLog(items[targetIndex + 1], 0)
    IN IF targetIndex = -1
       THEN [err |-> ErrEntryNotFound, logs |-> NilLogs]
       ELSE [err |-> "",
             logs |-> [isNil |-> FALSE, SessionID |-> label, TargetUUID |-> targetUUID,
                       TargetIndex |-> targetIndex, Offset |-> offset1,
                       TotalCount |-> Len(items),
                       Entries |-> IF offset1 < 0
                                   THEN EntriesBefore(items, targetIndex, offset1) \o <<target>>
                                   ELSE <<target>> \o EntriesAfter(items, targetIndex, 1, offset1)]]

\* GetLogsAroundEntry: every outcome, as [err, logs, processed]; processed is
\* the list the call loaded.
GetLogsAroundEntry(file, sessionID, targetUUID, offset, includeSidechains) ==
    {IF l.err # "" THEN [err |-> l.err, logs |-> NilLogs, processed |-> l.processed]
     ELSE IF l.processed.isNil THEN [err |-> "", logs |-> NilLogs, processed |-> l.processed]
     ELSE LET r == LogsAround(l.processed.items, sessionID, targetUUID, offset)
          IN [err |-> r.err, logs |-> r.logs, processed |-> l.processed]
     : l \in loadProcessedEntries(file, sessionID, includeSidechains)}

GetLogsAroundEntryFromFile(file, filePath, targetUUID, offset, includeSidechains) ==
    {IF l.err # "" THEN [err |-> l.err, logs |-> NilLogs, processed |-> l.processed]
     ELSE LET r == LogsAround(l.processed.items, filePath, targetUUID, offset)
          IN [err |-> r.err, logs |-> r.logs, processed |-> l.processed]
     : l \in loadProcessedEntriesFromFile(file, filePath, includeSidechains)}

\* An argument of a tool call that may be left out.
Omitted == [present |-> FALSE, value |-> 0]
Given(v) == [present |-> TRUE, value |-> v]
getString(arg) == IF arg.present THEN arg.value ELSE ""
getInt(arg) == IF arg.present THEN arg.value ELSE 0
getBool(arg, defaultVal) == IF arg.present THEN arg.value ELSE defaultVal

\* The file-system operations of a tool call, in the order they are made.
Stat(path) == [op |-> "stat", path |-> path]
Read(path) == [op |-> "read", path |-> path]
Write(path) == [op |-> "write", path |-> path]

\* The path findSessionFile probes for a session identifier.
SessionPath(sessionID) == IF sessionID = ExistingSession THEN ExistingFile ELSE MissingFile

\* What a load by session identifier touches: os.Stat in findSessionFile and,
\* when the file is there, the read of the log.
SessionAccess(sessionID) ==
    <<Stat(SessionPath(sessionID))>>
        \o IF findSessionFile(sessionID) # "" THEN <<Read(ExistingFile)>> ELSE <<>>

\* What a load by file path touches: os.Stat and, when the file is there, the
\* read of the log.
FileAccess(filePath) ==
    <<Stat(filePath)>> \o IF filePath = ExistingFile THEN <<Read(filePath)>> ELSE <<>>

\* The outcome of a tool call: the error or the result, the list it was
\* computed from, the file operations made and the path the result was saved to.
ToolOutcome(err, logs, processed, io, saved) ==
    [err |-> err, logs |-> logs, processed |-> processed, io |-> io, saved |-> saved]

\* The tail the tools share: the service error, the nil result, saveToFile.
FinishTool(o, access, outputPath) ==
    IF o.err # "" THEN ToolOutcome(o.err, NilLogs, o.processed, access, "")
    ELSE IF o.logs.isNil THEN ToolOutcome(ErrSessionNotFound, NilLogs, o.processed, access, "")
    ELSE IF outputPath # ""
    THEN ToolOutcome("", o.logs, o.processed, access \o <<Write(outputPath)>>, outputPath)
    ELSE ToolOutcome("", o.logs, o.processed, access, "")

\* GetLogsAroundEntryTool.Execute: every outcome, as [err, logs, processed].
GetLogsAroundEntryToolExecute(file, args) ==
    LET sessionID == getString(args.session_id)
        filePath == getString(args.file_path)
    IN IF sessionID = "" /\ filePath = ""
       THEN {ToolOutcome(ErrSourceRequired, NilLogs, NilSlice, <<>>, "")}
       ELSE IF args.uuid = Nil
       THEN {ToolOutcome(ErrUUIDRequired, NilLogs, NilSlice, <<>>, "")}
       ELSE LET offset == IF getInt(args.offset) = 0 THEN ToolDefaultOffset
                          ELSE getInt(args.offset)
                includeSidechains == getBool(args.include_sidechains, TRUE)
            IN IF filePath # ""
               THEN {FinishTool(o, FileAccess(filePath), getString(args.output_path))
                     : o \in GetLogsAroundEntryFromFile(file, filePath, args.uuid,
                                                        offset, includeSidechains)}
               ELSE {FinishTool(o, SessionAccess(sessionID), getString(args.output_path))
                     : o \in GetLogsAroundEntry(file, sessionID, args.uuid,
                                                offset, includeSidechains)}

\* The analyses that share loadProcessedEntries: GetSessionSummary,
\* GetToolUsageStats, GetSessionErrors, GetSessionTimeline, GetSessionStats.
Analyses == {"summary", "tool_stats", "errors", "timeline", "stats"}

\* compute<Analysis>: never nil; of its content the model keeps the number of
\* entries it was computed from.
Compute(kind, label, items) ==
    [isNil |-> FALSE, kind |-> kind, SessionID |-> label, TotalEntries |-> Len(items)]

\* GetSession<Analysis>: every outcome, as [err, logs, processed].
GetSessionAnalysis(file, kind, sessionID, includeSidechains) ==
    {IF l.err # "" THEN [err |-> l.err, logs |-> NilLogs, processed |-> l.processed]
     ELSE IF l.processed.isNil THEN [err |-> "", logs |-> NilLogs, processed |-> l.processed]
     ELSE [err |-> "", logs |-> Compute(kind, sessionID, l.processed.items),
           processed |-> l.processed]
     : l \in loadProcessedEntries(file, sessionID, includeSidechains)}

GetSessionAnalysisFromFile(file, kind, filePath, includeSidechains) ==
    {IF l.err # "" THEN [err |-> l.err, logs |-> NilLogs, processed |-> l.processed]
     ELSE [err |-> "", logs |-> Compute(kind, filePath, l.processed.items),
           processed |-> l.processed]
     : l \in loadProcessedEntriesFromFile(file, filePath, includeSidechains)}

\* Get<Analysis>Tool.Execute without the test of the two source arguments.
SessionAnalysisToolExecuteUnguarded(file, kind, args) ==
    LET sessionID == getString(args.session_id)
        filePath == getString(args.file_path)
        includeSidechains == getBool(args.include_sidechains, TRUE)
    IN IF filePath # ""
       THEN {FinishTool(o, FileAccess(filePath), getString(args.output_path))
             : o \in GetSessionAnalysisFromFile(file, kind, filePath, includeSidechains)}
       ELSE {FinishTool(o, SessionAccess(sessionID), getString(args.output_path))
             : o \in GetSessionAnalysis(file, kind, sessionID, includeSidechains)}

\* Get<Analysis>Tool.Execute.
SessionAnalysisToolExecute(file, kind, args) ==
    LET sessionID == getString(args.session_id)
        filePath == getString(args.file_path)
        includeSidechains == getBool(args.include_sidechains, TRUE)
    IN IF sessionID = "" /\ filePath = ""
       THEN {ToolOutcome(ErrSourceRequired, NilLogs, NilSlice, <<>>, "")}
       ELSE IF filePath # ""
       THEN {FinishTool(o, FileAccess(filePath), getString(args.output_path))
             : o \in GetSessionAnalysisFromFile(file, kind, filePath, includeSidechains)}
       ELSE {FinishTool(o, SessionAccess(sessionID), getString(args.output_path))
             : o \in GetSessionAnalysis(file, kind, sessionID, includeSidechains)}

\* GetSessionLogs and GetSessionLogsFromFile: the log of the session, one
\* entry for each top-level entry the sidechain filter lets through; never nil
\* for a file that is there.
SessionLogs(label, f, includeSidechains) ==
    [isNil |-> FALSE, kind |-> "logs", SessionID |-> label,
     Entries |-> SelectSeq(f.roots, LAMBDA e : includeSidechains \/ ~f.em[e].IsSidechain)]

GetSessionLogs(file, sessionID, includeSidechains) ==
    IF findSessionFile(sessionID) = ""
    THEN {[err |-> "", logs |-> NilLogs, processed |-> NilSlice]}
    ELSE {[err |-> "", logs |-> SessionLogs(sessionID, f, includeSidechains),
           processed |-> SliceOf(f.roots)] : f \in ProcessEntries(file)}

GetSessionLogsFromFile(file, filePath, includeSidechains) ==
    IF filePath # ExistingFile
    THEN {[err |-> ErrFileNotFound, logs |-> NilLogs, processed |-> NilSlice]}
    ELSE {[err |-> "", logs |-> SessionLogs(filePath, f, includeSidechains),
           processed |-> SliceOf(f.roots)] : f \in ProcessEntries(file)}

\* GetSessionLogsTool.Execute.  GetSessionLogsFromFile opens the file without
\* os.Stat before it.
GetSessionLogsToolExecute(file, args) ==
    LET sessionID == getString(args.session_id)
        filePath == getString(args.file_path)
        includeSidechains == getBool(args.include_sidechains, TRUE)
    IN IF sessionID = "" /\ filePath = ""
       THEN {ToolOutcome(ErrSourceRequired, NilLogs, NilSlice, <<>>, "")}
       ELSE IF filePath # ""
       THEN {FinishTool(o, <<Read(filePath)>>, getString(args.output_path))
             : o \in GetSessionLogsFromFile(file, filePath, includeSidechains)}
       ELSE {FinishTool(o, SessionAccess(sessionID), getString(args.output_path))
             : o \in GetSessionLogs(file, sessionID, includeSidechains)}

\* The file GenerateSessionHTML and GenerateHTMLFromFile write when no output
\* path is given.
TempHTMLPath == "tmp.html"

\* HTMLGenerationResult; the browser may or may not open.
HTMLGenerated(label, outputPath, openBrowser) ==
    {[isNil |-> FALSE, kind |-> "html", SessionID |-> label,
      OutputPath |-> IF outputPath = "" THEN TempHTMLPath ELSE outputPath,
      OpenedBrowser |-> opened]
     : opened \in IF openBrowser \/ outputPath = "" THEN BOOLEAN ELSE {FALSE}}

\* GenerateSessionHTML: a session that is not there is an error of the service.
GenerateSessionHTML(file, sessionID, outputPath, openBrowser) ==
    IF findSessionFile(sessionID) = ""
    THEN {[err |-> ErrSessionNotFound, logs |-> NilLogs, processed |-> NilSlice]}
    ELSE UNION {{[err |-> "", logs |-> r, processed |-> SliceOf(f.roots)]
                  : r \in HTMLGenerated(sessionID, outputPath, openBrowser)}
                : f \in ProcessEntries(file)}

GenerateHTMLFromFile(file, inputPath, outputPath, openBrowser) ==
    IF inputPath # ExistingFile
    THEN {[err |-> ErrFileNotFound, logs |-> NilLogs, processed |-> NilSlice]}
    ELSE UNION {{[err |-> "", logs |-> r, processed |-> SliceOf(f.roots)]
                  : r \in HTMLGenerated("", outputPath, openBrowser)}
                : f \in ProcessEntries(file)}

\* GenerateHTMLTool.Execute: the service writes the page itself.
GenerateHTMLToolExecute(file, args) ==
    LET sessionID == getString(args.session_id)
        filePath == getString(args.file_path)
        outputPath == getString(args.output_path)
        openBrowser == getBool(args.open_browser, FALSE)
        Done(o, access) ==
            IF o.err # "" THEN ToolOutcome(o.err, NilLogs, o.processed, access, "")
            ELSE ToolOutcome("", o.logs, o.processed,
                             access \o <<Write(o.logs.OutputPath)>>, o.logs.OutputPath)
    IN IF sessionID = "" /\ filePath = ""
       THEN {ToolOutcome(ErrSourceRequired, NilLogs, NilSlice, <<>>, "")}
       ELSE IF filePath # ""
       THEN {Done(o, FileAccess(filePath))
             : o \in GenerateHTMLFromFile(file, filePath, outputPath, openBrowser)}
       ELSE {Done(o, SessionAccess(sessionID))
             : o \in GenerateSessionHTML(file, sessionID, outputPath, openBrowser)}

\* The arguments of the requests.
TargetUUIDs == 1..(MaxFile + 1)
Offsets == (-MaxOffset)..MaxOffset
Sources == {<<Given(ExistingSession), Omitted>>, <<Given(MissingSession), Omitted>>,
            <<Omitted, Given(ExistingFile)>>, <<Omitted, Given(MissingFile)>>,
            <<Omitted, Omitted>>, <<Given(""), Given("")>>}
OutputPaths == {Omitted, Given("out.json")}

\* The session log grows by one record; what was answered before is history.
\* The service keeps nothing between two requests, so one request is made on
\* each state of the log.
WriteRecord ==
    /\ phase = "read"
    /\ Len(input) < MaxFile
    /\ \E rec \in ServiceRecords(input) : input' = Append(input, rec)
    /\ request' = NoRequest
    /\ response' = NoResponse
    /\ UNCHANGED <<entryMap, phase, rootEntries, run, first, calls, last, serverVars>>

\* SessionService.GetLogsAroundEntry, as the context command calls it.
CallGetLogsAroundEntry ==
    /\ request = NoRequest
    /\ \E sessionID \in {ExistingSession, MissingSession}, targetUUID \in TargetUUIDs,
          offset \in Offsets, includeSidechains \in BOOLEAN :
          /\ request' = [op |-> "GetLogsAroundEntry", source |-> sessionID,
                         uuid |-> targetUUID, offset |-> offset,
                         include_sidechains |-> includeSidechains]
          /\ \E o \in GetLogsAroundEntry(input, sessionID, targetUUID, offset, includeSidechains) :
                response' = [op |-> "GetLogsAroundEntry", err |-> o.err, logs |-> o.logs,
                             processed |-> o.processed]
    /\ UNCHANGED <<input, entryMap, phase, rootEntries, run, first, calls, last, serverVars>>

\* SessionService.GetLogsAroundEntryFromFile.
CallGetLogsAroundEntryFromFile ==
    /\ request = NoRequest
    /\ \E filePath \in {ExistingFile, MissingFile}, targetUUID \in TargetUUIDs,
          offset \in Offsets, includeSidechains \in BOOLEAN :
          /\ request' = [op |-> "GetLogsAroundEntryFromFile", source |-> filePath,
                         uuid |-> targetUUID, offset |-> offset,
                         include_sidechains |-> includeSidechains]
          /\ \E o \in GetLogsAroundEntryFromFile(input, filePath, targetUUID, offset,
                                                 includeSidechains) :
                response' = [op |-> "GetLogsAroundEntryFromFile", err |-> o.err,
                             logs |-> o.logs, processed |-> o.processed]
    /\ UNCHANGED <<input, entryMap, phase, rootEntries, run, first, calls, last, serverVars>>

\* The get_logs_around_entry tool.
ExecuteGetLogsAroundEntryTool ==
    /\ request = NoRequest
    /\ \E src \in Sources, uuid \in {Nil} \cup TargetUUIDs,
          offset \in {Omitted} \cup {Given(v) : v \in Offsets},
          inc \in {Omitted, Given(FALSE)}, out \in OutputPaths :
          LET args == [session_id |-> src[1], file_path |-> src[2], uuid |-> uuid,
                       offset |-> offset, include_sidechains |-> inc, output_path |-> out]
          IN /\ request' = [op |-> "get_logs_around_entry", args |-> args]
             /\ \E o \in GetLogsAroundEntryToolExecute(input, args) :
                   response' = [op |-> "get_logs_around_entry", err |-> o.err,
                                logs |-> o.logs, processed |-> o.processed,
                                io |-> o.io, saved |-> o.saved]
    /\ UNCHANGED <<input, entryMap, phase, rootEntries, run, first, calls, last, serverVars>>

\* The get_session_summary, get_tool_usage_stats, get_session_errors,
\* get_session_timeline and get_session_stats tools.
ExecuteSessionAnalysisTool ==
    /\ request = NoRequest
    /\ \E kind \in Analyses, src \in Sources, inc \in {Omitted, Given(FALSE)},
          out \in OutputPaths :
          LET args == [session_id |-> src[1], file_path |-> src[2],
                       include_sidechains |-> inc, output_path |-> out]
          IN /\ request' = [op |-> kind, args |-> args]
             /\ \E o \in SessionAnalysisToolExecute(input, kind, args) :
                   response' = [op |-> kind, err |-> o.err, logs |-> o.logs,
                                processed |-> o.processed, io |-> o.io, saved |-> o.saved]
    /\ UNCHANGED <<input, entryMap, phase, rootEntries, run, first, calls, last, serverVars>>

\* The get_session_logs tool.
ExecuteGetSessionLogsTool ==
    /\ request = NoRequest
    /\ \E src \in Sources, inc \in {Omitted, Given(FALSE)}, out \in OutputPaths :
          LET args == [session_id |-> src[1], file_path |-> src[2],
                       include_sidechains |-> inc, output_path |-> out]
          IN /\ request' = [op |-> "get_session_logs", args |-> args]
             /\ \E o \in GetSessionLogsToolExecute(input, args) :
                   response' = [op |-> "get_session_logs", err |-> o.err, logs |-> o.logs,
                                processed |-> o.processed, io |-> o.io, saved |-> o.saved]
    /\ UNCHANGED <<input, entryMap, phase, rootEntries, run, first, calls, last, serverVars>>

\* The generate_html tool.
ExecuteGenerateHTMLTool ==
    /\ request = NoRequest
    /\ \E src \in Sources, out \in OutputPaths, browser \in {Omitted, Given(TRUE)} :
          LET args == [session_id |-> src[1], file_path |-> src[2],
                       output_path |-> out, open_browser |-> browser]
          IN /\ request' = [op |-> "generate_html", args |-> args]
             /\ \E o \in GenerateHTMLToolExecute(input, args) :
                   response' = [op |-> "generate_html", err |-> o.err, logs |-> o.logs,
                                processed |-> o.processed, io |-> o.io, saved |-> o.saved]
    /\ UNCHANGED <<input, entryMap, phase, rootEntries, run, first, calls, last, serverVars>>

NextService ==
    \/ WriteRecord
    \/ CallGetLogsAroundEntry
    \/ CallGetLogsAroundEntryFromFile
    \/ ExecuteGetLogsAroundEntryTool
    \/ ExecuteSessionAnalysisTool
    \/ ExecuteGetSessionLogsTool
    \/ ExecuteGenerateHTMLTool

SpecService == Init /\ [][NextService]_vars

\* ------------------------------------------------------------------------
\* SessionService.ListSessions over one project directory
\* ------------------------------------------------------------------------
ExistingProject == "p1"
MissingProject == "p2"

\* The lines of a session file: a record with its timestamp, a summary
\* message, a line that is not JSON.
FileLines ==
    {[kind |-> "entry", Timestamp |-> t] : t \in Timestamps}
    \cup {[kind |-> "summary"], [kind |-> "garbage"]}

\* The entries a project directory can hold: a session file <uuid>.jsonl with
\* up to MaxLines lines, or an entry of another name.
DirEntries ==
    {[session |-> TRUE, lines |-> l] : l \in UNION {[1..n -> FileLines] : n \in 0..MaxLines}}
    \cup {[session |-> FALSE, lines |-> <<>>]}

\* parser.ReadJSONLFile: the lines that parse and are no summary.
ReadJSONLFile(file) == SelectSeq(file.lines, LAMBDA l : l.kind = "entry")

Max(S) == CHOOSE x \in S : \A y \in S : y <= x

\* getSessionInfo(filePath, sessionID, ...): nil without error for a file
\* that yields no record.
NilInfo == [isNil |-> TRUE]
getSessionInfo(file, sessionID) ==
    LET entries == ReadJSONLFile(file)
        times == {entries[i].Timestamp : i \in DOMAIN entries}
    IN IF Len(entries) = 0 THEN NilInfo
       ELSE [isNil |-> FALSE, SessionID |-> sessionID, MessageCount |-> Len(entries),
             StartTime |-> Min(times), EndTime |-> Max(times)]

\* The loop of ListSessions from directory entry i on: the sessions appended,
\* or the nil pointer dereference of *sessionInfo, which ends the process.
RECURSIVE ListFrom(_, _, _)
ListFrom(dir, i, sessions) ==
    IF i > Len(dir) THEN [panic |-> FALSE, sessions |-> sessions]
    ELSE IF ~dir[i].session THEN ListFrom(dir, i + 1, sessions)
    ELSE LET sessionInfo == getSessionInfo(dir[i], i)
         IN IF sessionInfo.isNil
            THEN [panic |-> TRUE, sessions |-> sessions]
            ELSE ListFrom(dir, i + 1, Append(sessions, sessionInfo))

\* sort.Slice by start time descending: any arrangement so ordered.
SortedByStartDesc(list) ==
    \A i, j \in DOMAIN list : i < j => list[i].StartTime >= list[j].StartTime

SortByStart(list) ==
    {[i \in DOMAIN list |-> list[p[i]]] : p \in {q \in Perms(DOMAIN list) :
        SortedByStartDesc([i \in DOMAIN list |-> list[q[i]]])}}

\* ListSessions(projectName, 0, false, limit): every outcome, as
\* [panic, err, sessions].
ListSessions(dir, projectName, limit) ==
    IF projectName # ExistingProject
    THEN {[panic |-> FALSE, err |-> "", sessions |-> NilSlice]}
    ELSE LET listed == ListFrom(dir, 1, <<>>)
         IN IF listed.panic
            THEN {[panic |-> TRUE, err |-> "", sessions |-> NilSlice]}
            ELSE {[panic |-> FALSE, err |-> "",
                   sessions |-> [isNil |-> listed.sessions = <<>>,
                                 items |-> IF limit > 0 /\ Len(sorted) > limit
                                           THEN SubSeq(sorted, 1, limit) ELSE sorted]]
                  : sorted \in SortByStart(listed.sessions)}

\* The project directory gets one more entry; what was answered before is
\* history.
AddSessionFile ==
    /\ Len(store) < MaxSessions
    /\ \E file \in DirEntries : store' = Append(store, file)
    /\ request' = NoRequest
    /\ response' = NoResponse
    /\ UNCHANGED <<processorVars, stdin, stdout, server>>

\* SessionService.ListSessions, as the sessions command calls it.
CallListSessions ==
    /\ request = NoRequest
    /\ \E projectName \in {ExistingProject, MissingProject}, limit \in 0..MaxSessions :
          /\ request' = [op |-> "ListSessions", project |-> projectName, limit |-> limit]
          /\ \E o \in ListSessions(store, projectName, limit) :
                response' = [op |-> "ListSessions", panic |-> o.panic, err |-> o.err,
                             sessions |-> o.sessions]
    /\ UNCHANGED <<processorVars, serverVars>>

NextListing ==
    \/ AddSessionFile
    \/ CallListSessions

SpecListing == Init /\ [][NextListing]_vars

\* ------------------------------------------------------------------------
\* The MCP server: Server.Run over its input stream
\* ------------------------------------------------------------------------
ParseError == -32700
InvalidRequest == -32600
MethodNotFound == -32601
InvalidParams == -32602
InternalError == -32603
DefaultLimit == 50

\* The params of a tools/call request as handleToolsCall decodes them: absent
\* or undecodable, or a tool name with the project argument.
NoParams == [valid |-> FALSE, name |-> "", project |-> Omitted]
ToolParams ==
    {NoParams, [valid |-> TRUE, name |-> "bogus_tool", project |-> Omitted]}
    \cup {[valid |-> TRUE, name |-> "list_sessions", project |-> a]
            : a \in {Omitted, Given(ExistingProject), Given(MissingProject)}}

Methods == {"initialize", "initialized", "tools/list", "tools/call", "ping", "bogus"}
RequestIDs == {Omitted, Given(1), Given(2)}

\* What one line of input can hold: nothing, text that is no JSON-RPC
\* object, or a JSONRPCRequest; a request without id is a notification.
BlankLine ==
    [kind |-> "blank", jsonrpc |-> "", id |-> Omitted, method |-> "", params |-> NoParams]
GarbageLine ==
    [kind |-> "garbage", jsonrpc |-> "", id |-> Omitted, method |-> "", params |-> NoParams]
RequestLines ==
    {[kind |-> "request", jsonrpc |-> v, id |-> i, method |-> m, params |-> NoParams]
        : v \in {"2.0", "1.0"}, i \in RequestIDs, m \in Methods \ {"tools/call"}}
    \cup {[kind |-> "request", jsonrpc |-> "2.0", id |-> i, method |-> "tools/call", params |-> q]
        : i \in RequestIDs, q \in ToolParams}
LineBodies == {BlankLine, GarbageLine} \cup RequestLines

successResponse(id) == [id |-> id, code |-> 0, message |-> ""]
errorResponse(id, code, message) == [id |-> id, code |-> code, message |-> message]

\* What a handler hands back to Run: a response, nil, or a panic that
\* nothing recovers.
Reply(resp) == [panic |-> FALSE, responses |-> <<resp>>]
NoReply == [panic |-> FALSE, responses |-> <<>>]
Panicked == [panic |-> TRUE, responses |-> <<>>]

\* ListSessionsTool.Execute: the error, or the panic of ListSessions.
ListSessionsToolExecute(dir, args) ==
    LET project == getString(args.project)
    IN IF project = "" THEN {[panic |-> FALSE, err |-> "project is required"]}
       ELSE {[panic |-> o.panic, err |-> o.err] : o \in ListSessions(dir, project, DefaultLimit)}

\* handleToolsCall.
handleToolsCall(dir, req) ==
    IF ~req.params.valid
    THEN {Reply(errorResponse(req.id, InvalidParams, "Invalid params"))}
    ELSE IF req.params.name # "list_sessions"
    THEN {Reply(errorResponse(req.id, InvalidParams, "Tool not found"))}
    ELSE {IF o.panic THEN Panicked
          ELSE IF o.err # ""
          THEN Reply(errorResponse(req.id, InternalError, "Tool execution failed"))
          ELSE Reply(successResponse(req.id))
          : o \in ListSessionsToolExecute(dir, req.params)}

\* handleRequest.
handleRequest(dir, req) ==
    IF req.jsonrpc # "2.0"
    THEN {Reply(errorResponse(req.id, InvalidRequest, "Invalid Request"))}
    ELSE IF req.method = "initialized" THEN {NoReply}
    ELSE IF req.method = "tools/call" THEN handleToolsCall(dir, req)
    ELSE IF req.method \in {"initialize", "tools/list", "ping"}
    THEN {Reply(successResponse(req.id))}
    ELSE {Reply(errorResponse(req.id, MethodNotFound, "Method not found"))}

\* The body of the loop of Run for one line read up to its newline.
HandleLine(dir, body) ==
    IF body.kind = "blank" THEN {NoReply}
    ELSE IF body.kind = "garbage"
    THEN {Reply(errorResponse(Omitted, ParseError, "Parse error"))}
    ELSE handleRequest(dir, body)

\* The client writes one more line, with its newline or, as the last thing
\* before it closes the stream, without.
ClientWrites ==
    /\ ~stdin.closed
    /\ Len(stdin.lines) < MaxInputLines
    /\ \E body \in LineBodies, terminated \in BOOLEAN :
          /\ ~terminated => body.kind # "blank"
          /\ stdin' = [lines |-> Append(stdin.lines, [terminated |-> terminated, body |-> body]),
                       closed |-> ~terminated]
    /\ UNCHANGED <<processorVars, request, response, store, stdout, server>>

\* The client closes the stream.
ClientCloses ==
    /\ ~stdin.closed
    /\ stdin' = [stdin EXCEPT !.closed = TRUE]
    /\ UNCHANGED <<processorVars, request, response, store, stdout, server>>

\* A session file appears in the project directory the server lists.
CreateSessionFile ==
    /\ Len(store) < MaxServerFiles
    /\ \E t \in 0..1 :
          store' = Append(store, [session |-> TRUE,
                                  lines |-> [k \in 1..t |-> [kind |-> "entry", Timestamp |-> 1]]])
    /\ UNCHANGED <<processorVars, request, response, stdin, stdout, server>>

\* One iteration of the loop of Run: ReadBytes returns a line with its
\* newline, the line is decoded and handled, the response is encoded.
ServeLine ==
    /\ server.pc = "running"
    /\ server.next <= Len(stdin.lines)
    /\ stdin.lines[server.next].terminated
    /\ \E o \in HandleLine(store, stdin.lines[server.next].body) :
          /\ stdout' = stdout \o [k \in DOMAIN o.responses |->
                                    [line |-> server.next, id |-> o.responses[k].id,
                                     code |-> o.responses[k].code,
                                     message |-> o.responses[k].message]]
          /\ server' = IF o.panic THEN [server EXCEPT !.pc = "crashed"]
                        ELSE [server EXCEPT !.next = server.next + 1]
    /\ UNCHANGED <<processorVars, request, response, store, stdin>>

\* The last iteration: ReadBytes returns io.EOF, with or without bytes read,
\* and Run returns nil.
ReadEOF ==
    /\ server.pc = "running"
    /\ stdin.closed
    /\ \/ server.next > Len(stdin.lines)
       \/ /\ server.next <= Len(stdin.lines)
          /\ ~stdin.lines[server.next].terminated
    /\ server' = [server EXCEPT !.pc = "returned"]
    /\ UNCHANGED <<processorVars, request, response, store, stdin, stdout>>

NextServer ==
    \/ ClientWrites
    \/ ClientCloses
    \/ CreateSessionFile
    \/ ServeLine
    \/ ReadEOF

SpecServer == Init /\ [][NextServer]_vars

\* ------------------------------------------------------------------------
\* The forest and the sidechain of a root
\* ------------------------------------------------------------------------
Results(em, e) == {em[e].ToolCalls[k].Result : k \in DOMAIN em[e].ToolCalls} \ {Nil}
TaskEntriesOf(em, e) == UNION {Range(em[e].ToolCalls[k].TaskEntries) : k \in DOMAIN em[e].ToolCalls}

\* The entries one link away from e in the emitted structure.
Links(em, e) == Range(em[e].Children) \cup Results(em, e) \cup TaskEntriesOf(em, e)
NestLinks(em, e) == Range(em[e].Children) \cup TaskEntriesOf(em, e)

RECURSIVE ReachFrom(_, _)
ReachFrom(em, S) ==
    LET T == S \cup UNION {Links(em, e) : e \in S}
    IN IF T = S THEN S ELSE ReachFrom(em, T)

RECURSIVE NestReachFrom(_, _)
NestReachFrom(em, S) ==
    LET T == S \cup UNION {NestLinks(em, e) : e \in S}
    IN IF T = S THEN S ELSE NestReachFrom(em, T)

\* Every entry of the forest: roots, children, attached results, task entries.
Forest(em, roots) == ReachFrom(em, Range(roots))

\* The sidechain entries reachable from root by parent links through
\* sidechain entries.
RECURSIVE ParentReachFrom(_, _)
ParentReachFrom(em, S) ==
    LET T == S \cup UNION {ScanChildren(em, e) : e \in S}
    IN IF T = S THEN S ELSE ParentReachFrom(em, T)

ParentReach(em, root) == ParentReachFrom(em, {root})

\* The sidechain entries that share the root's agent identifier.
AgentClass(em, root) ==
    {e \in DOMAIN em : em[e].AgentID = em[root].AgentID /\ em[e].IsSidechain}

\* The consumed tool results among them.
ConsumedInClass(em, root) ==
    {e \in AgentClass(em, root) : em[e].IsToolResult /\ e \in Consumed(em)}

\* What a caller sees of a forest: the roots and every entry below them.
ForestView(em, roots) ==
    [roots |-> roots, entries |-> [e \in Forest(em, roots) |-> em[e]]]

\* The places <<parent, index>> of the Children lists of S that hold e.
ChildSlots(em, S, e) ==
    UNION {{<<p, i>> : i \in {k \in DOMAIN em[p].Children : em[p].Children[k] = e}} : p \in S}

\* The latest collectSidechainEntries call returned a list.
Returned == last.root # Nil /\ ~last.overflow

\* ------------------------------------------------------------------------
\* Claims
\* ------------------------------------------------------------------------

\* C1: after ProcessEntries every entry of the returned forest (roots,
\* children, attached tool results, nested task entries) has TotalTokens equal
\* to its own InputTokens + CacheReadTokens + CacheCreationTokens.
C1_EveryForestEntryHasOwnTotal ==
    phase = "done" =>
        \A e \in Forest(entryMap, rootEntries) : entryMap[e].TotalTokens = OwnTotal(entryMap[e])

\* C2: two runs of ProcessEntries on the same input yield identical forests:
\* the same roots and, for every entry of the forest, the same fields, lists
\* and flags.
C2_SecondRunSameForest ==
    (run = 2 /\ phase = "done") =>
        ForestView(entryMap, rootEntries) = ForestView(first.entryMap, first.rootEntries)

\* C3: every call of collectSidechainEntries returns; none recurses forever.
C3_CollectTerminates == ~last.overflow

\* C4 as stated: whenever the primary traversal collected fewer entries than
\* the expected count, the returned list has at least expected minus the
\* consumed tool results entries and is sorted by ascending timestamp.
C4_Original ==
    (Returned /\ Len(last.primary) < last.expected) =>
        /\ Len(last.result) >= last.expected - Cardinality(ConsumedInClass(last.before, last.root))
        /\ SortedByTimestamp(last.before, last.result)

\* C4 amended: the same for a root whose agent identifier is not empty.
C4_FallbackCoversAndSorted ==
    (Returned /\ last.before[last.root].AgentID # "" /\ Len(last.primary) < last.expected) =>
        /\ last.fellBack
        /\ Len(last.result) >= last.expected - Cardinality(ConsumedInClass(last.before, last.root))
        /\ SortedByTimestamp(last.before, last.result)

\* C4 witness: the fallback was taken over a class holding a consumed tool
\* result and entries with different timestamps.
C4_Witness ==
    /\ Returned /\ last.fellBack
    /\ ConsumedInClass(last.before, last.root) # {}
    /\ \E i, j \in DOMAIN last.result :
          last.before[last.result[i]].RawTimestamp < last.before[last.result[j]].RawTimestamp

\* C5: the list collectSidechainEntries returns never contains a tool-result
\* entry that is attached as the Result of some tool call.
C5_NoAttachedResultReturned ==
    Returned => \A i \in DOMAIN last.result : last.result[i] \notin Consumed(last.before)

\* C6: the list collectSidechainEntries returns contains each entry at most
\* once, also when Children lists were populated by an earlier call.
C6_NoDuplicateReturned ==
    Returned => \A i, j \in DOMAIN last.result : i # j => last.result[i] # last.result[j]

\* C7: in the emitted forest no entry is owned twice: an entry occurs in at
\* most one Children list and once in it, an entry attached as a Result is no
\* child, task entry or root, and no entry reaches itself through Children and
\* TaskEntries.
C7_NoEntryOwnedTwice ==
    phase = "done" =>
        LET F == Forest(entryMap, rootEntries)
        IN /\ \A e \in F : Cardinality(ChildSlots(entryMap, F, e)) <= 1
           /\ \A p \in F : \A r \in Results(entryMap, p) :
                 /\ r \notin Range(rootEntries)
                 /\ \A q \in F : r \notin NestLinks(entryMap, q)
           /\ \A e \in F : e \notin NestReachFrom(entryMap, NestLinks(entryMap, e))

\* C8: skipping an attached tool result never truncates the walk: every
\* sidechain entry reachable from the root by parent links is visited, and is
\* in the traversal result unless it is an attached tool result.
C8_SkipNeverTruncates ==
    Returned =>
        \A e \in ParentReach(last.before, last.root) :
            /\ e \in last.visited
            /\ e \notin Consumed(last.before) => e \in Range(last.primary)

\* C8 witness: an attached tool result was skipped and an entry below it is
\* in the traversal result.
C8_Witness ==
    /\ Returned
    /\ \E e \in last.visited \ Range(last.primary) :
          \E c \in Range(last.primary) : last.before[c].ParentUUID = e /\ c # e

\* C9: when every sidechain entry of the root's agent is reachable from the
\* root by parent links, the list returned is the depth-first traversal
\* result, not the flat fallback list.
C9_IntactLinksNoFallback ==
    (Returned /\ AgentClass(last.before, last.root) \subseteq ParentReach(last.before, last.root)) =>
        last.result = last.primary

\* C10: when the fallback is selected, every entry has the same Children list
\* after collectSidechainEntries as before it.
C10_FallbackLeavesChildren ==
    (Returned /\ last.fellBack) =>
        \A e \in DOMAIN last.before : entryMap[e].Children = last.before[e].Children

\* A list of entries is in input order: UUID i is the i-th record of the input.
InInputOrder(list) == \A i, j \in DOMAIN list : i < j => list[i] <= list[j]

\* C11: at every level of the forest ProcessEntries returns (the roots, each
\* Children list, each nested task-entry list) the entries appear in the order
\* of their first appearance in the input sequence.
C11_EveryLevelInInputOrder ==
    phase = "done" =>
        /\ InInputOrder(rootEntries)
        /\ \A e \in Forest(entryMap, rootEntries) :
              /\ InInputOrder(entryMap[e].Children)
              /\ \A k \in DOMAIN entryMap[e].ToolCalls :
                    InInputOrder(entryMap[e].ToolCalls[k].TaskEntries)

\* The tool calls <<entry, k>> of the entries in S.
ToolCallsOf(em, S) == UNION {{<<e, k>> : k \in DOMAIN em[e].ToolCalls} : e \in S}

\* The entries the flagging pass reaches: the roots and everything below them
\* through Children and nested task entries.
Nested(em, roots) == NestReachFrom(em, Range(roots))

\* C12: after ProcessEntries no two tool calls, of the same or of different
\* entries, have the same entry as Result, and a tool call that holds a result
\* has the identifier the result entry carries as ToolResultID.
C12_ResultAttachedOnce ==
    phase = "done" =>
        LET calls_ == ToolCallsOf(entryMap, DOMAIN entryMap)
            Call(c) == entryMap[c[1]].ToolCalls[c[2]]
        IN /\ \A c, d \in calls_ :
                 (c # d /\ Call(c).Result # Nil) => Call(c).Result # Call(d).Result
           /\ \A c \in calls_ :
                 Call(c).Result # Nil =>
                     /\ entryMap[Call(c).Result].IsToolResult
                     /\ entryMap[Call(c).Result].ToolResultID = Call(c).ID

\* C12 witness: two tool calls carry the same identifier, one result entry
\* carries it too, and the first call holds the result while the second holds
\* none.
C12_Witness ==
    /\ phase = "done"
    /\ \E c, d \in ToolCallsOf(entryMap, DOMAIN entryMap) :
          /\ c[1] < d[1]
          /\ entryMap[c[1]].ToolCalls[c[2]].ID = entryMap[d[1]].ToolCalls[d[2]].ID
          /\ entryMap[c[1]].ToolCalls[c[2]].Result > d[1]
          /\ entryMap[d[1]].ToolCalls[d[2]].Result = Nil

\* C13: after the flagging pass, for every tool call of every entry reachable
\* from the roots through Children and nested task entries, HasMissingResult
\* is true if and only if the tool call has no attached Result.
C13_MissingResultIffNoResult ==
    phase = "done" =>
        \A c \in ToolCallsOf(entryMap, Nested(entryMap, rootEntries)) :
            entryMap[c[1]].ToolCalls[c[2]].HasMissingResult
                <=> (entryMap[c[1]].ToolCalls[c[2]].Result = Nil)

\* C13 witness: below a root, one nested entry holds a tool call with its
\* result attached and not flagged, and another nested entry holds a tool call
\* without result that is flagged.
C13_Witness ==
    /\ phase = "done"
    /\ \E c, d \in ToolCallsOf(entryMap, Nested(entryMap, rootEntries) \ Range(rootEntries)) :
          /\ entryMap[c[1]].ToolCalls[c[2]].Result # Nil
          /\ ~entryMap[c[1]].ToolCalls[c[2]].HasMissingResult
          /\ entryMap[d[1]].ToolCalls[d[2]].Result = Nil
          /\ entryMap[d[1]].ToolCalls[d[2]].HasMissingResult

\* C14: after the flagging pass, for every tool call reachable from the roots
\* through Children and nested task entries, HasMissingSidechain is true if
\* and only if the tool is the Task tool and the call has no nested task
\* entries.
C14_MissingSidechainIffEmptyTask ==
    phase = "done" =>
        \A c \in ToolCallsOf(entryMap, Nested(entryMap, rootEntries)) :
            entryMap[c[1]].ToolCalls[c[2]].HasMissingSidechain
                <=> /\ entryMap[c[1]].ToolCalls[c[2]].Name = TaskToolName
                    /\ Len(entryMap[c[1]].ToolCalls[c[2]].TaskEntries) = 0

\* C14 witness: a Task call of a root has no nested task entries and is
\* flagged, although the input holds sub-agent records.
C14_Witness ==
    /\ phase = "done"
    /\ \E i \in DOMAIN entryMap : entryMap[i].IsSidechain
    /\ \E c \in ToolCallsOf(entryMap, Range(rootEntries)) :
          /\ entryMap[c[1]].ToolCalls[c[2]].Name = TaskToolName
          /\ Len(entryMap[c[1]].ToolCalls[c[2]].TaskEntries) = 0
          /\ entryMap[c[1]].ToolCalls[c[2]].HasMissingSidechain

\* The record at position i of the input does not parse.
Unparsable(i) == ~input[i].Message.valid

\* C15: for a raw record whose message payload cannot be parsed, processEntry
\* still emits an entry: it is in the forest ProcessEntries returns, its
\* content is empty and its token estimate is positive and is the estimate
\* for the length of the raw serialized payload.
C15_UnparsableGetsPositiveEstimate ==
    \A i \in DOMAIN entryMap :
        Unparsable(i) =>
            /\ entryMap[i].UUID = input[i].UUID
            /\ phase = "done" => i \in Range(rootEntries)
            /\ entryMap[i].Content = <<>>
            /\ entryMap[i].TokenCount > 0
            /\ entryMap[i].TokenCount = EstimateTokens(input[i].Message.raw)

\* The content processEntry gave the i-th top-level entry.
OriginalContent(i) == processEntry(input[rootEntries[i]]).Content

\* pat stands in text at the 1-based position i.
OccursAt(text, pat, i) ==
    /\ i + Len(pat) - 1 <= Len(text)
    /\ \A k \in 1..Len(pat) : text[i + k - 1] = pat[k]

\* text holds a stdout-tagged block: a start tag and an end tag after it.
HasStdoutBlock(text) ==
    \E a \in 1..Len(text) : \E b \in 1..Len(text) :
        /\ OccursAt(text, StartTag(TagCommandStdout), a)
        /\ b >= a + Len(StartTag(TagCommandStdout))
        /\ OccursAt(text, EndTag(TagCommandStdout), b)

\* The text between the first start tag of text and the first end tag after it.
EnclosedText(text) ==
    LET open == StartTag(TagCommandStdout)
        close == EndTag(TagCommandStdout)
        a == Min({i \in 1..Len(text) : OccursAt(text, open, i)})
        b == Min({i \in (a + Len(open))..Len(text) : OccursAt(text, close, i)})
    IN [k \in 1..(b - a - Len(open)) |-> text[a + Len(open) + k - 1]]

\* The adjacent top-level pairs the linker merges.
CommandPairs ==
    {i \in 1..(Len(rootEntries) - 1) :
        /\ entryMap[rootEntries[i]].IsCommandMessage
        /\ entryMap[rootEntries[i + 1]].Role = RoleUser
        /\ HasStdoutBlock(OriginalContent(i + 1))}

\* C16: for every pair of adjacent top-level entries where entry i is a
\* command message and entry i+1 is a user-role entry whose content holds a
\* stdout-tagged block, after linkCommandOutputs entry i's CommandOutput is
\* the text enclosed by the stdout tags of entry i+1's original content and
\* entry i+1's Content is empty.
C16_CommandOutputLinked ==
    phase = "done" =>
        \A i \in CommandPairs :
            /\ entryMap[rootEntries[i]].CommandOutput = EnclosedText(OriginalContent(i + 1))
            /\ entryMap[rootEntries[i + 1]].Content = <<>>

\* C16 witness: three top-level entries, the second a command message that
\* itself holds a stdout block with text around it and is followed by a user
\* entry holding another block; both pairs are linked.
C16_Witness ==
    /\ phase = "done"
    /\ {1, 2} \subseteq CommandPairs
    /\ Len(OriginalContent(2)) > Len(EnclosedText(OriginalContent(2)))
                                  + Len(StartTag(TagCommandStdout)) + Len(EndTag(TagCommandStdout))
    /\ entryMap[rootEntries[1]].CommandOutput # <<>>
    /\ entryMap[rootEntries[1]].CommandOutput # entryMap[rootEntries[2]].CommandOutput

\* A service call of GetLogsAroundEntry or GetLogsAroundEntryFromFile
\* returned a result.
LogsReturned ==
    /\ response.op \in {"GetLogsAroundEntry", "GetLogsAroundEntryFromFile"}
    /\ response.err = ""
    /\ ~response.logs.isNil

\* The window the result must hold for a negative offset -k: the min(k, t)
\* entries before the 0-based target index t, then the target.
WindowBefore(items, t, k) ==
    LET n == Min({k, t})
    IN [j \in 1..(n + 1) |-> [Offset |-> j - (n + 1), entry |-> items[t + 1 + j - (n + 1)]]]

\* The window for a positive offset k: the target, then the up to k entries
\* after it.
WindowAfter(items, t, k) ==
    LET n == Min({k, Len(items) - 1 - t})
    IN [j \in 1..(n + 1) |-> [Offset |-> j - 1, entry |-> items[t + j]]]

\* C17: GetLogsAroundEntry with offset -k (k > 0) returns, in session order,
\* the min(k, targetIndex) entries immediately before the target followed by
\* the target; with offset +k the target followed by the up to k entries after
\* it; each entry carries its index distance from the target, the target 0,
\* and the window is clipped at the ends of the session.
C17_WindowAroundTarget ==
    (LogsReturned /\ request.offset # 0) =>
        LET items == response.processed.items
            t == response.logs.TargetIndex
        IN /\ t \in 0..(Len(items) - 1)
           /\ items[t + 1] = request.uuid
           /\ response.logs.TotalCount = Len(items)
           /\ request.offset < 0 =>
                 response.logs.Entries = WindowBefore(items, t, -request.offset)
           /\ request.offset > 0 =>
                 response.logs.Entries = WindowAfter(items, t, request.offset)

\* C17 witness: a window before the target that is clipped at the start of
\* the session and still holds an entry before the target.
C17_Witness ==
    /\ LogsReturned
    /\ request.offset < 0
    /\ response.logs.TargetIndex > 0
    /\ response.logs.TargetIndex < -request.offset
    /\ Len(response.logs.Entries) = response.logs.TargetIndex + 1

\* The identifiers of the entries of the session, at any nesting level.
SessionUUIDs == {input[i].UUID : i \in DOMAIN input}

\* C18: GetLogsAroundEntry on an existing session fails with 'entry with UUID
\* ... not found' exactly when the session holds no entry with the target
\* identifier; when it holds one, at any nesting level, the call returns a
\* result whose offset-0 entry is that entry.
C18_NotFoundIffAbsent ==
    (response.op = "GetLogsAroundEntry" /\ request.source = ExistingSession) =>
        /\ (response.err = ErrEntryNotFound) <=> (request.uuid \notin SessionUUIDs)
        /\ request.uuid \in SessionUUIDs =>
              /\ response.err = ""
              /\ ~response.logs.isNil
              /\ \E j \in DOMAIN response.logs.Entries :
                    response.logs.Entries[j] = [Offset |-> 0, entry |-> request.uuid]

\* The request went to one of the session-analysis tools.
ToolAnswered == response.op \in Analyses \cup {"get_logs_around_entry"}

\* C19: a session-analysis tool (summary, tool stats, errors, timeline, stats,
\* logs around entry) reports 'session not found' only when the session cannot
\* be located; for a session that exists and yields zero entries the five
\* analyses return a result, not an error.
C19_SessionNotFoundOnlyWhenMissing ==
    ToolAnswered =>
        /\ response.err = ErrSessionNotFound =>
              (/\ getString(request.args.file_path) = ""
               /\ getString(request.args.session_id) = MissingSession)
        /\ (/\ response.op \in Analyses
            /\ getString(request.args.file_path) = ""
            /\ getString(request.args.session_id) = ExistingSession) =>
              (response.err = "" /\ ~response.logs.isNil)

\* C20: when the offset argument of the get_logs_around_entry tool is omitted
\* or 0, the result's Offset field is -3 and the result holds the up to three
\* entries before the target followed by the target.
C20_ToolDefaultOffsetIsMinusThree ==
    (/\ response.op = "get_logs_around_entry"
     /\ getInt(request.args.offset) = 0
     /\ response.err = ""
     /\ ~response.logs.isNil) =>
        /\ response.logs.Offset = -3
        /\ response.logs.Entries =
              WindowBefore(response.processed.items, response.logs.TargetIndex, 3)

\* The tools that take session_id or file_path.
SourceTools == Analyses \cup {"get_logs_around_entry", "get_session_logs", "generate_html"}

\* C21: every tool that takes session_id or file_path (generate_html,
\* get_session_logs, get_session_summary, get_tool_usage_stats,
\* get_session_errors, get_session_timeline, get_session_stats,
\* get_logs_around_entry) answers 'either session_id or file_path is required'
\* and returns no result when both arguments are absent or empty, and has made
\* no file operation by then; with one of them given it never answers so.
C21_SourceRequiredBeforeAnyFileAccess ==
    response.op \in SourceTools =>
        IF getString(request.args.session_id) = "" /\ getString(request.args.file_path) = ""
        THEN /\ response.err = ErrSourceRequired
             /\ response.logs.isNil
             /\ response.io = <<>>
             /\ response.saved = ""
        ELSE response.err # ErrSourceRequired

\* C21 witness: on a session log that holds records, generate_html was called
\* with both arguments given as empty strings and an output path, and was
\* refused.
C21_Witness ==
    /\ response.op = "generate_html"
    /\ Len(input) > 0
    /\ request.args.session_id = Given("")
    /\ request.args.file_path = Given("")
    /\ request.args.output_path # Omitted
    /\ response.err = ErrSourceRequired

\* The top-level entries whose content the linker blanked.
Blanked ==
    {i \in 1..Len(rootEntries) :
        OriginalContent(i) # <<>> /\ entryMap[rootEntries[i]].Content = <<>>}

\* C26: linkCommandOutputs never loses captured output: whenever the Content
\* of entry i+1 was blanked, that content held a stdout block (an opening tag
\* and a closing tag after it) and the CommandOutput of entry i is the text the
\* block encloses; in particular no content with an opening tag and no closing
\* tag is blanked while the CommandOutput stays empty.
C26_BlankedContentIsKept ==
    phase = "done" =>
        \A i \in Blanked :
            /\ i > 1
            /\ HasStdoutBlock(OriginalContent(i))
            /\ entryMap[rootEntries[i - 1]].CommandOutput = EnclosedText(OriginalContent(i))

\* C25: when the fallback reconstruction is selected, no entry the primary
\* traversal had collected is lost: every entry of the traversal result that
\* is not an attached tool result is in the returned list, also an entry
\* reached by parent links whose agent identifier is empty or differs from
\* the root's.
C25_FallbackKeepsTraversed ==
    (Returned /\ last.fellBack) =>
        Range(last.primary) \ Consumed(last.before) \subseteq Range(last.result)

\* The entries reachable from the entries S through Children lists.
RECURSIVE ChildrenReachFrom(_, _)
ChildrenReachFrom(em, S) ==
    LET T == S \cup UNION {Range(em[e].Children) : e \in S}
    IN IF T = S THEN S ELSE ChildrenReachFrom(em, T)

\* The entries reachable from the entries S through Children lists and
\* through the parent links of sidechain entries.
RECURSIVE TreeReachFrom(_, _)
TreeReachFrom(em, S) ==
    LET T == S \cup UNION {Range(em[e].Children) \cup ScanChildren(em, e) : e \in S}
    IN IF T = S THEN S ELSE TreeReachFrom(em, T)

\* The assistant texts among the entries S: assistant role, no tool result,
\* content that is not blank.
AssistantTexts(em, S) ==
    {e \in S : /\ em[e].Role = RoleAssistant /\ ~em[e].IsToolResult
               /\ TrimSpace(em[e].Content) # <<>>}

\* The user texts among the entries S.
UserTexts(em, S) ==
    {e \in S : em[e].Role = RoleUser /\ TrimSpace(em[e].Content) # <<>>}

Latest(em, S) == {e \in S : \A f \in S : em[f].RawTimestamp <= em[e].RawTimestamp}
Earliest(em, S) == {e \in S : \A f \in S : em[e].RawTimestamp <= em[f].RawTimestamp}

\* The answer is the trimmed content of one of the entries S.
AnswerFrom(em, S) == \E e \in S : response.result = TrimSpace(em[e].Content)

SessionsWithRecords ==
    {i \in DOMAIN store : store[i].session /\ Len(ReadJSONLFile(store[i])) > 0}

\* C29: ListSessions returns normally for every project directory: a session
\* file that yields no record (empty, or only summary or unparsable lines) is
\* skipped and the other sessions of the project are listed; the sessions
\* returned are sorted by start time descending and are at most limit when
\* limit > 0.
C29_ListSessionsSkipsEmptyFiles ==
    (response.op = "ListSessions" /\ request.project = ExistingProject) =>
        /\ ~response.panic
        /\ response.err = ""
        /\ LET items == response.sessions.items
               wanted == Cardinality(SessionsWithRecords)
           IN /\ \A k \in DOMAIN items : items[k].SessionID \in SessionsWithRecords
              /\ \A k, l \in DOMAIN items : k # l => items[k].SessionID # items[l].SessionID
              /\ SortedByStartDesc(items)
              /\ Len(items) = IF request.limit > 0 /\ wanted > request.limit
                               THEN request.limit ELSE wanted

\* The responses written for the k-th line of input.
ResponsesTo(k) == SelectSeq(stdout, LAMBDA r : r.line = k)

\* The request lines of the input.
RequestLineNumbers == {k \in DOMAIN stdin.lines : stdin.lines[k].body.kind = "request"}

\* C27: when Run has returned at end of input, every request line of the
\* input has been handled and answered, the final line without newline
\* included ('initialized', which is never answered, aside).
C27_EveryLineHandledBeforeReturn ==
    server.pc = "returned" =>
        \A k \in RequestLineNumbers :
            /\ k < server.next
            /\ stdin.lines[k].body.method # "initialized" => Len(ResponsesTo(k)) = 1

\* C28: the server writes no response to a notification, that is to a
\* request line without id, whatever its method.
C28_NoResponseToNotification ==
    \A k \in RequestLineNumbers :
        ~stdin.lines[k].body.id.present => Len(ResponsesTo(k)) = 0

\* What the response to line k must look like.
ProperResponse(k, r) ==
    LET body == stdin.lines[k].body
    IN /\ r.id = body.id
       /\ body.kind = "garbage" => r.code = ParseError /\ r.message = "Parse error" /\ ~r.id.present
       /\ (body.kind = "request" /\ body.jsonrpc # "2.0") =>
             r.code = InvalidRequest /\ r.message = "Invalid Request"
       /\ (body.kind = "request" /\ body.jsonrpc = "2.0" /\ body.method = "bogus") =>
             r.code = MethodNotFound /\ r.message = "Method not found"

\* The lines Run has read and handled, in order.
ServedLines == 1..(server.next - 1)

\* What C22 says of the lines served so far: responses in arrival order, one
\* per non-empty line ('initialized' aside), with the request's id and the
\* error the line calls for.
AnsweredInOrder ==
    /\ \A i, j \in DOMAIN stdout : i < j => stdout[i].line < stdout[j].line
    /\ \A i \in DOMAIN stdout : stdout[i].line \in ServedLines
    /\ \A k \in ServedLines :
          LET body == stdin.lines[k].body
              n == Len(ResponsesTo(k))
          IN /\ body.kind = "blank" => n = 0
             /\ (body.kind = "request" /\ body.method = "initialized") => n <= 1
             /\ (body.kind = "garbage" \/ (body.kind = "request" /\ body.method # "initialized")) =>
                   n = 1
             /\ \A r \in Range(ResponsesTo(k)) : ProperResponse(k, r)

\* C22: the server answers in arrival order, one response per non-empty line
\* other than 'initialized' and before the next line is read, with the
\* request's id (Parse error without id, Invalid Request, Method not found),
\* and neither an invalid line nor a failed tool call stops it: it is never
\* found stopped with a line read and unanswered.
C22_AnswersInOrderAndKeepsServing ==
    /\ AnsweredInOrder
    /\ server.pc # "crashed"

====
